---- MODULE Spec2Model ----
(***************************************************************************)
(* FinConnect developer portal: the subscription ledger (storage.ts), the  *)
(* request middleware (middleware.ts), the token gate (auth.ts) and the    *)
(* routes that compose them (routes.ts).                                   *)
(*                                                                         *)
(* Handlers and middleware are operators from (state, request) to          *)
(* (state, response); an action applies one of them.  The specifications   *)
(* that share them:                                                        *)
(*   SpecLedger    the subscription handlers, one call at a time           *)
(*   SpecRace      two reconciliation calls interleaving at their awaits   *)
(*   SpecRate      rateLimit under an advancing clock                      *)
(*   SpecRateHist  the same for one user, with the admission times         *)
(*   SpecGate      a request routed through registerRoutes, with the rows  *)
(*                 written to api_logs                                     *)
(*   SpecPage      the paginated reads of transactions and api_logs        *)
(*   SpecToken     tokens issued and presented while the store changes     *)
(*   SpecDated     subscribe and cancel under an advancing clock           *)
(*   SpecRestart   the same across restarts of the process                 *)
(*   SpecSubscribeRace  two subscribe calls interleaving at their awaits   *)
(*   SpecRateFair  SpecRate with a clock and users that keep going         *)
(*   SpecReconcile reconciliation calls on a table two interleaved calls   *)
(*                 may have left                                           *)
(*   SpecRegister  registrations and restarts                              *)
(***************************************************************************)
EXTENDS Integers, Sequences, FiniteSets, TLC

VARIABLES
    users,          \* users table: id -> role (ids are 1..Len); SpecRegister:
                    \* id -> row
    subscriptions,  \* subscriptions table: id -> row (ids are 1..Len)
    transactions,   \* transactions table: sequence of the owners' user ids
    requestCounts,  \* middleware's Map userId -> {count, resetTime}
    now,            \* Date.now()
    last,           \* the call that completed last, with its response
    procs,          \* the calls in flight (SpecRace: each at one of its awaits)
    arrivals,       \* SpecRate: userId -> requests made in the current window
    admits,         \* SpecRateHist: times of the admissions of the last minute;
                    \* SpecGate: the users the bypass parameter let through
    apiLogs,        \* api_logs table: sequence of rows
    tokens          \* SpecToken: the tokens issued so far

vars == <<users, subscriptions, transactions, requestCounts, now, last, procs,
          arrivals, admits, apiLogs, tokens>>

(***************************************************************************)
(* Bounds of the model.                                                    *)
(***************************************************************************)
MaxSubs == 2
MaxMinutes == 2     \* the clock runs to MaxMinutes minutes ...
MaxMs == 1          \* ... and MaxMs milliseconds
MaxArrivals == 12   \* requests of one user in one rate window
MaxGateCount == 2   \* SpecGate: requests counted in a window that started empty
MaxGateRows == 1    \* SpecGate: rows written to transactions and to api_logs
MaxBypass == 2      \* SpecGate: requests let through by the bypass parameter
MaxRecords == 15    \* SpecPage: rows of one user in a table
MaxPageQuery == 3   \* SpecPage: the largest page asked for
MaxSizeQuery == 101 \* SpecPage: the largest pageSize asked for
MaxDays == 1        \* SpecToken: the clock runs to MaxDays days ...
MaxSeconds == 1     \* ... and MaxSeconds seconds
MaxTokens == 2      \* SpecToken: tokens issued
MaxClock == 1       \* SpecDated: the clock runs to MaxClock

(***************************************************************************)
(* Values.                                                                 *)
(***************************************************************************)
Null == -1          \* SQL NULL / JS null in a date column
Undefined == 0      \* no row id: ids start at 1
Missing == 0        \* an absent metadata field / body field

Plans == {"standard", "premium"}
SeedUsers == <<"admin", "developer">>
UserIds == DOMAIN SeedUsers

NoWindow == [count |-> 0, resetTime |-> Null]

(***************************************************************************)
(* storage.ts: the subscriptions table.                                    *)
(***************************************************************************)
SubIds(subs) == DOMAIN subs

\* createSubscription: INSERT with an autoincrement id; active defaults to
\* true, start_date to now, end_date to NULL.
createSubscriptionExclusive(subs, userId, plan, t) ==
    Append([i \in DOMAIN subs |->
                IF subs[i].userId = userId /\ subs[i].active
                THEN [subs[i] EXCEPT !.active = FALSE, !.endDate = t]
                ELSE subs[i]],
           [id |-> Len(subs) + 1, userId |-> userId, plan |-> plan,
            active |-> TRUE, startDate |-> t, endDate |-> Null])

createSubscription(subs, userId, plan, t) ==
    Append(subs, [id |-> Len(subs) + 1, userId |-> userId, plan |-> plan,
                  active |-> TRUE, startDate |-> t, endDate |-> Null])

\* getSubscriptionById: the row, or undefined.
getSubscriptionById(subs, id) ==
    IF id \in SubIds(subs) THEN id ELSE Undefined

\* getActiveSubscriptionByUserId: SELECT ... WHERE user_id = ? AND active = 1
\* with .get(): one matching row.  The statement has no ORDER BY, so which
\* of several matching rows comes back is the engine's choice: the operator
\* gives every row the call may return ({Undefined} when none matches).
ActiveIds(subs, userId) ==
    {i \in SubIds(subs) : subs[i].userId = userId /\ subs[i].active}

getActiveSubscriptionByUserId(subs, userId) ==
    IF ActiveIds(subs, userId) = {} THEN {Undefined} ELSE ActiveIds(subs, userId)

\* cancelSubscription: UPDATE ... SET active = 0, end_date = now WHERE id = ?
\* (the caller has checked the row exists; an unknown id throws).
cancelSubscriptionKeepActive(subs, id, t) ==
    [subs EXCEPT ![id].endDate = t]

cancelSubscription(subs, id, t) ==
    [subs EXCEPT ![id].active = FALSE, ![id].endDate = t]

ActiveCount(subs, userId) == Cardinality(ActiveIds(subs, userId))

(***************************************************************************)
(* routes.ts: the subscription handlers.  A handler takes the table, its   *)
(* inputs, the row its lookup returned (existing) and the storage call     *)
(* that throws during it (fault: "none", "get", "cancel" or "create"), and *)
(* gives the table it leaves and the response it sends.                    *)
(***************************************************************************)
Faults == {"none", "get", "cancel", "create"}
NoFault == "none"
NoPlan == ""

\* threw: a storage or provider call threw and a catch of the handler ran.
Res(subs, status, body, cancelled, created, threw) ==
    [subs |-> subs, status |-> status, body |-> body,
     cancelled |-> cancelled, created |-> created, threw |-> threw]

\* if (existingSubscription) { ... cancelSubscription(existingSubscription.id) }
ExistingFoundNever(existing) == FALSE

ExistingFound(existing) == existing # Undefined

\* The check-cancel-create block of the webhook and of the payment-status
\* poll, inside their try: threw tells whether the catch was entered.
CheckCancelCreate(subs, userId, plan, existing, fault, t) ==
    IF fault = "get"
    THEN [subs |-> subs, cancelled |-> Undefined, created |-> Undefined, threw |-> TRUE]
    ELSE IF ExistingFound(existing) /\ fault = "cancel"
    THEN [subs |-> subs, cancelled |-> Undefined, created |-> Undefined, threw |-> TRUE]
    ELSE LET afterCancel == IF ExistingFound(existing)
                            THEN cancelSubscription(subs, existing, t)
                            ELSE subs
             cancelled == IF ExistingFound(existing) THEN existing ELSE Undefined
         IN  IF fault = "create"
             THEN [subs |-> afterCancel, cancelled |-> cancelled,
                   created |-> Undefined, threw |-> TRUE]
             ELSE [subs |-> createSubscription(afterCancel, userId, plan, t),
                   cancelled |-> cancelled,
                   created |-> Len(afterCancel) + 1, threw |-> FALSE]

\* A webhook request body.  parses: JSON.parse succeeds and gives an object;
\* hasObject: event.data.object is there; hasMetadata: its metadata is there;
\* userId (the decimal string of a user id, read back by parseInt) and planId
\* are metadata fields, Missing / NoPlan when absent.  A body that does not
\* parse to an object has no type to read.
Succeeded == "payment_intent.succeeded"
NoType == "none"    \* the event has no type field
EventTypes == {Succeeded, "payment_intent.payment_failed", NoType}

\* The storage calls of the check-cancel-create block that can throw, given
\* what its lookup returns.
BlockFaults(existing) ==
    IF existing = Undefined THEN Faults \ {"cancel"} ELSE Faults

WebhookEvents ==
    {e \in [parses : BOOLEAN, type : EventTypes, hasObject : BOOLEAN,
            hasMetadata : BOOLEAN, userId : UserIds \cup {Missing},
            planId : Plans \cup {NoPlan}] :
        /\ ~e.parses => (e.type = NoType /\ ~e.hasObject)
        /\ ~e.hasObject => ~e.hasMetadata
        /\ ~e.hasMetadata => (e.userId = Missing /\ e.planId = NoPlan)}

\* if (event.type === 'payment_intent.succeeded')
IsPaymentSucceededAnyType(event) == TRUE

IsPaymentSucceeded(event) == event.type = Succeeded

\* The inner catch logs and falls through to res.json({received: true}).
WebhookAckRethrow(subs, cancelled, created, threw) ==
    IF threw
    THEN Res(subs, 400, "WebhookError", cancelled, created, threw)
    ELSE Res(subs, 200, "received", cancelled, created, threw)

WebhookAck(subs, cancelled, created, threw) ==
    Res(subs, 200, "received", cancelled, created, threw)

\* if (!userId || !planId) throw new Error('Missing user or plan ...')
MissingUserOrPlanIgnored(event) == FALSE

MissingUserOrPlan(event) ==
    ~event.hasMetadata \/ event.userId = Missing \/ event.planId = NoPlan

\* POST /webhook.
WebhookHandler(subs, event, existing, fault, t) ==
    IF ~event.parses
    THEN Res(subs, 400, "WebhookError", Undefined, Undefined, TRUE)
    ELSE IF ~IsPaymentSucceeded(event)
    THEN WebhookAck(subs, Undefined, Undefined, FALSE)
    ELSE IF ~event.hasObject
         \* paymentIntent.id on undefined throws outside the inner try
    THEN Res(subs, 400, "WebhookError", Undefined, Undefined, TRUE)
    ELSE IF MissingUserOrPlan(event)
         \* destructuring undefined, or the explicit throw: both in the inner try
    THEN WebhookAck(subs, Undefined, Undefined, TRUE)
    ELSE LET r == CheckCancelCreate(subs, event.userId, event.planId, existing, fault, t)
         IN  WebhookAck(r.subs, r.cancelled, r.created, r.threw)

\* The payment record stripe.paymentIntents.retrieve returns (found = FALSE:
\* the call throws).
PaymentStatuses == {"succeeded", "requires_payment_method"}

PaymentRecords ==
    {[found |-> FALSE, owner |-> Missing, pstatus |-> "succeeded", planId |-> NoPlan]}
    \cup
    {[found |-> TRUE, owner |-> o, pstatus |-> st, planId |-> p] :
        o \in UserIds, st \in PaymentStatuses, p \in Plans}

\* paymentIntent.metadata.userId !== req.user!.id.toString() && !force_create
NotOwnerNever(payment, caller, force) == FALSE

NotOwnerThoughForced(payment, caller, force) == payment.owner # caller

NotOwner(payment, caller, force) == payment.owner # caller /\ ~force

\* GET /check-payment-status, after authenticate has set req.user = caller.
CheckPaymentStatusHandler(subs, caller, hasIntent, force, payment, existing, fault, t) ==
    IF ~hasIntent
    THEN Res(subs, 400, "PaymentIntentRequired", Undefined, Undefined, FALSE)
    ELSE IF ~payment.found
    THEN Res(subs, 500, "ErrorCheckingPaymentStatus", Undefined, Undefined, TRUE)
    ELSE IF NotOwner(payment, caller, force)
    THEN Res(subs, 403, "NotAuthorizedForPaymentIntent", Undefined, Undefined, FALSE)
    ELSE IF payment.pstatus = "succeeded" \/ force
    THEN LET r == CheckCancelCreate(subs, caller, payment.planId, existing, fault, t)
         IN  Res(r.subs, 200, "paymentStatus", r.cancelled, r.created, r.threw)
    ELSE Res(subs, 200, "paymentStatus", Undefined, Undefined, FALSE)

\* if (existingSubscription) return 400 'User already has an active subscription'
AlreadySubscribedNever(existing) == FALSE

AlreadySubscribed(existing) == existing # Undefined

\* POST /subscriptions/subscribe, after authenticate; validBody: the body
\* passes subscriptionSchema.
SubscribeHandler(subs, caller, validBody, plan, existing, fault, t) ==
    IF ~validBody
    THEN Res(subs, 400, "InvalidInput", Undefined, Undefined, FALSE)
    ELSE IF fault = "get"
    THEN Res(subs, 500, "ServerError", Undefined, Undefined, TRUE)
    ELSE IF AlreadySubscribed(existing)
    THEN Res(subs, 400, "AlreadySubscribed", Undefined, Undefined, FALSE)
    ELSE IF fault = "create"
    THEN Res(subs, 500, "ServerError", Undefined, Undefined, TRUE)
    ELSE Res(createSubscription(subs, caller, plan, t), 201, "SubscriptionCreated",
             Undefined, Len(subs) + 1, FALSE)

\* POST /subscriptions/cancel, after authenticate.
CancelHandler(subs, caller, existing, fault, t) ==
    IF fault = "get"
    THEN Res(subs, 500, "ServerError", Undefined, Undefined, TRUE)
    ELSE IF existing = Undefined
    THEN Res(subs, 404, "NoActiveSubscription", Undefined, Undefined, FALSE)
    ELSE IF fault = "cancel"
    THEN Res(subs, 500, "ServerError", Undefined, Undefined, TRUE)
    ELSE Res(cancelSubscription(subs, existing, t), 200, "SubscriptionCanceled",
             existing, Undefined, FALSE)

\* POST /admin/subscriptions/cancel, after authenticate and
\* authorizeRoles('admin'); subscriptionId is Missing when the body has none.
AdminCancelHandler(subs, subscriptionId, fault, t) ==
    IF subscriptionId = Missing
    THEN Res(subs, 400, "SubscriptionIdRequired", Undefined, Undefined, FALSE)
    ELSE IF fault = "get"
    THEN Res(subs, 500, "ServerError", Undefined, Undefined, TRUE)
    ELSE IF getSubscriptionById(subs, subscriptionId) = Undefined
    THEN Res(subs, 404, "SubscriptionNotFound", Undefined, Undefined, FALSE)
    ELSE IF fault = "cancel"
    THEN Res(subs, 500, "ServerError", Undefined, Undefined, TRUE)
    ELSE Res(cancelSubscription(subs, subscriptionId, t), 200, "SubscriptionCanceled",
             subscriptionId, Undefined, FALSE)

(***************************************************************************)
(* SpecLedger: the subscription handlers called one at a time, each        *)
(* running to completion.                                                  *)
(***************************************************************************)
\* What is recorded of a completed call: the operation, its inputs, its
\* response, whether it changed the table, and (first) for a webhook the
\* row the call before it created when that call was a delivery of the same
\* event that went through, for the admin's cancel the subscriptionId of
\* the body.
Call(op, detail, user, r, changed, first) ==
    [op |-> op, detail |-> detail, user |-> user,
     status |-> r.status, body |-> r.body,
     cancelled |-> r.cancelled, created |-> r.created, threw |-> r.threw,
     changed |-> changed, first |-> first]

NoCall ==
    [op |-> "none", detail |-> "none", user |-> Missing,
     status |-> 0, body |-> "none",
     cancelled |-> Undefined, created |-> Undefined, threw |-> FALSE,
     changed |-> FALSE, first |-> Undefined]

\* The shape of a webhook body, as the handler's branches tell them apart.
EventClass(event) ==
    IF ~event.parses THEN "unparseable"
    ELSE IF event.type # Succeeded THEN "otherType"
    ELSE IF ~event.hasObject THEN "noObject"
    ELSE IF ~event.hasMetadata \/ event.userId = Missing \/ event.planId = NoPlan
    THEN "noMetadata"
    ELSE "full"

PollClass(hasIntent, force, payment, caller) ==
    IF ~hasIntent THEN "noIntent"
    ELSE IF ~payment.found THEN "retrieveFailed"
    ELSE IF force THEN "force"
    ELSE IF payment.owner # caller THEN "notOwner"
    ELSE payment.pstatus

\* The row the last call created, when that call was a delivery of `event`
\* that went through.
FirstDelivery(event) ==
    IF /\ EventClass(event) = "full"
       /\ last.op = "webhook" /\ last.detail = "full" /\ ~last.threw
       /\ last.user = event.userId
       /\ subscriptions[last.created].plan = event.planId
    THEN last.created
    ELSE Undefined

Completes(op, detail, user, r, first) ==
    /\ Len(r.subs) <= MaxSubs
    /\ subscriptions' = r.subs
    /\ last' = Call(op, detail, user, r, r.subs # subscriptions, first)
    /\ UNCHANGED <<users, transactions, requestCounts, now, procs, arrivals, admits,
                   apiLogs, tokens>>

InitLedger ==
    /\ users = SeedUsers
    /\ subscriptions = <<>>
    /\ transactions = <<>>
    /\ requestCounts = [u \in UserIds |-> NoWindow]
    /\ now = 0
    /\ last = NoCall
    /\ procs = <<>>
    /\ arrivals = <<>>
    /\ admits = <<>>
    /\ tokens = {}
    /\ apiLogs = <<>>

Webhook ==
    \E event \in WebhookEvents :
        \E existing \in getActiveSubscriptionByUserId(subscriptions, event.userId) :
            \E fault \in (IF EventClass(event) = "full" THEN BlockFaults(existing)
                          ELSE {NoFault}) :
                LET r == WebhookHandler(subscriptions, event, existing, fault, now)
                IN  Completes("webhook", EventClass(event), event.userId, r,
                              FirstDelivery(event))

CheckPaymentStatus ==
    \E caller \in UserIds, hasIntent \in BOOLEAN, force \in BOOLEAN,
       payment \in PaymentRecords :
        \E existing \in getActiveSubscriptionByUserId(subscriptions, caller) :
            \E fault \in (IF hasIntent /\ payment.found THEN BlockFaults(existing)
                          ELSE {NoFault}) :
                LET r == CheckPaymentStatusHandler(subscriptions, caller, hasIntent, force,
                                                   payment, existing, fault, now)
                IN  Completes("poll", PollClass(hasIntent, force, payment, caller),
                              caller, r, Undefined)

Subscribe ==
    \E caller \in UserIds, validBody \in BOOLEAN, plan \in Plans :
        \E existing \in getActiveSubscriptionByUserId(subscriptions, caller) :
            \E fault \in Faults \ {"cancel"} :
                LET r == SubscribeHandler(subscriptions, caller, validBody, plan,
                                          existing, fault, now)
                IN  Completes("subscribe", IF validBody THEN plan ELSE "invalid",
                              caller, r, Undefined)

Cancel ==
    \E caller \in UserIds :
        \E existing \in getActiveSubscriptionByUserId(subscriptions, caller) :
            \E fault \in Faults \ {"create"} :
                LET r == CancelHandler(subscriptions, caller, existing, fault, now)
                IN  Completes("cancel", "user", caller, r, Undefined)

AdminCancel ==
    \E subscriptionId \in 0 .. (Len(subscriptions) + 1), fault \in Faults \ {"create"} :
        LET r == AdminCancelHandler(subscriptions, subscriptionId, fault, now)
        IN  Completes("cancel", "admin", Missing, r, subscriptionId)

NextLedger ==
    \/ Webhook
    \/ CheckPaymentStatus
    \/ Subscribe
    \/ Cancel
    \/ AdminCancel

SpecLedger == InitLedger /\ [][NextLedger]_vars

(***************************************************************************)
(* Properties of the subscription handlers (SpecLedger).                   *)
(***************************************************************************)
\* C1: after any sequence of subscribe, cancel (user or admin) and
\* reconciliation (webhook or poll) calls, each run to completion, every
\* user has at most one subscription row with active = true.
C1_AtMostOneActive ==
    \A u \in UserIds : ActiveCount(subscriptions, u) <= 1

\* A reconciliation has replaced a user's active row: the old row is
\* inactive, the new one is the user's only active row.
C1_Witness ==
    /\ last.op \in {"webhook", "poll"}
    /\ last.cancelled # Undefined /\ last.created # Undefined
    /\ ~subscriptions[last.cancelled].active
    /\ ActiveIds(subscriptions, last.user) = {last.created}

\* C3: a second delivery of the same payment_intent.succeeded event, after
\* the first has completed, never leaves the user with two active rows; when
\* no storage call fails during it, it cancels the row the first delivery
\* created and creates a new one, which is then the user's only active row.
C3_RedeliveryOneActive ==
    (last.op = "webhook" /\ last.first # Undefined) =>
        /\ ActiveCount(subscriptions, last.user) <= 1
        /\ ~last.threw =>
            /\ last.cancelled = last.first
            /\ ~subscriptions[last.first].active
            /\ last.created = Len(subscriptions)
            /\ ActiveIds(subscriptions, last.user) = {last.created}

\* The second delivery went through.
C3_Witness ==
    /\ last.op = "webhook" /\ last.first # Undefined /\ ~last.threw
    /\ last.cancelled = last.first
    /\ ActiveCount(subscriptions, last.user) = 1

\* C4 as stated: every webhook request is answered with success status and
\* {received: true}, whatever its payload.
C4_AlwaysAcknowledged ==
    last.op = "webhook" => (last.status = 200 /\ last.body = "received")

\* C4 as amended: a webhook request is answered with success status and
\* {received: true}, also when reconciliation fails, unless its body does not
\* parse to an event object or is a payment_intent.succeeded event without
\* data.object; those are answered 400 "Webhook Error".
C4_AcknowledgedUnlessMalformed ==
    last.op = "webhook" =>
        IF last.detail \in {"unparseable", "noObject"}
        THEN last.status = 400 /\ last.body = "WebhookError"
        ELSE last.status = 200 /\ last.body = "received"

\* A storage call threw during the reconciliation of a well-formed event,
\* and the event was acknowledged.
C4_Witness ==
    /\ last.op = "webhook" /\ last.detail = "full" /\ last.threw
    /\ last.status = 200 /\ last.body = "received"

\* C5: a webhook event whose type is not payment_intent.succeeded is
\* acknowledged and leaves the subscriptions table as it was: no row is
\* created, none is cancelled.
C5_OtherTypeLeavesLedger ==
    (last.op = "webhook" /\ last.detail = "otherType") =>
        /\ ~last.changed
        /\ last.created = Undefined /\ last.cancelled = Undefined
        /\ last.status = 200 /\ last.body = "received"

\* Such an event arrived carrying the metadata of a user who has an active
\* subscription.
C5_Witness ==
    /\ last.op = "webhook" /\ last.detail = "otherType"
    /\ last.user # Missing
    /\ ActiveCount(subscriptions, last.user) = 1

(***************************************************************************)
(* SpecRace: two reconciliation calls (webhook or payment-status poll) in  *)
(* flight at once.  Each storage call is awaited, so a call runs from one  *)
(* await to the next and the other call may run in between:                *)
(*   get     await storage.getActiveSubscriptionByUserId(userId)           *)
(*   cancel  await storage.cancelSubscription(existingSubscription.id)     *)
(*   create  await storage.createSubscription({...})                       *)
(* The table starts as the calls of SpecLedger can leave it: empty, or     *)
(* with one active row.                                                    *)
(***************************************************************************)
Procs == {1, 2}
ReconcileKinds == {"webhook", "poll"}

\* stale: another call created a row for the same user after this call's
\* lookup and before its own create.
IdleProc ==
    [pc |-> "idle", kind |-> "none", user |-> Missing, plan |-> NoPlan,
     existing |-> Undefined, created |-> Undefined, stale |-> FALSE]

RaceStartTables ==
    {<<>>} \cup {createSubscription(<<>>, u, p, 0) : u \in UserIds, p \in Plans}

InitRace ==
    /\ users = SeedUsers
    /\ subscriptions \in RaceStartTables
    /\ transactions = <<>>
    /\ requestCounts = [u \in UserIds |-> NoWindow]
    /\ now = 0
    /\ last = NoCall
    /\ procs = [p \in Procs |-> IdleProc]
    /\ arrivals = <<>>
    /\ admits = <<>>
    /\ tokens = {}
    /\ apiLogs = <<>>

raceIdle == <<users, transactions, requestCounts, now, last, arrivals, admits,
             apiLogs, tokens>>

\* The call arrives and runs up to its lookup.  For the webhook the user and
\* plan are the event's metadata, for the poll the caller and the payment
\* record's planId.
RaceStart(p) ==
    /\ procs[p].pc = "idle"
    /\ \E kind \in ReconcileKinds, u \in UserIds, plan \in Plans :
          procs' = [procs EXCEPT ![p] =
                       [IdleProc EXCEPT !.pc = "get", !.kind = kind,
                                        !.user = u, !.plan = plan]]
    /\ UNCHANGED <<subscriptions>>
    /\ UNCHANGED raceIdle

RaceGet(p) ==
    /\ procs[p].pc = "get"
    /\ \E existing \in getActiveSubscriptionByUserId(subscriptions, procs[p].user) :
          procs' = [procs EXCEPT ![p].existing = existing,
                                 ![p].pc = IF ExistingFound(existing)
                                           THEN "cancel" ELSE "create"]
    /\ UNCHANGED <<subscriptions>>
    /\ UNCHANGED raceIdle

RaceCancel(p) ==
    /\ procs[p].pc = "cancel"
    /\ subscriptions' = cancelSubscription(subscriptions, procs[p].existing, now)
    /\ procs' = [procs EXCEPT ![p].pc = "create"]
    /\ UNCHANGED raceIdle

RaceCreate(p) ==
    /\ procs[p].pc = "create"
    /\ subscriptions' = createSubscription(subscriptions, procs[p].user,
                                           procs[p].plan, now)
    /\ procs' = [q \in Procs |->
                    IF q = p
                    THEN [procs[p] EXCEPT !.pc = "done",
                                          !.created = Len(subscriptions) + 1]
                    ELSE IF /\ procs[q].pc \in {"cancel", "create"}
                            /\ procs[q].user = procs[p].user
                    THEN [procs[q] EXCEPT !.stale = TRUE]
                    ELSE procs[q]]
    /\ UNCHANGED raceIdle

NextRace ==
    \E p \in Procs :
        \/ RaceStart(p)
        \/ RaceGet(p)
        \/ RaceCancel(p)
        \/ RaceCreate(p)

SpecRace == InitRace /\ [][NextRace]_vars

\* C2: two reconciliation calls for the same user whose steps interleave at
\* the awaits can leave that user with two active rows: when both calls are
\* done the user has two active rows if one call created its row between
\* the other's lookup and the other's create, and one active row otherwise.
C2_RaceLeavesTwoActive ==
    (/\ procs[1].pc = "done" /\ procs[2].pc = "done"
     /\ procs[1].user = procs[2].user) =>
        ActiveCount(subscriptions, procs[1].user) =
            (IF procs[1].stale \/ procs[2].stale THEN 2 ELSE 1)

\* Both calls are done and the user has two active rows, the two the calls
\* created.
C2_Witness ==
    /\ procs[1].pc = "done" /\ procs[2].pc = "done"
    /\ procs[1].user = procs[2].user
    /\ ActiveIds(subscriptions, procs[1].user) = {procs[1].created, procs[2].created}
    /\ procs[1].created # procs[2].created

(***************************************************************************)
(* middleware.ts: rateLimit.                                               *)
(***************************************************************************)
RateLimitMax == 10
oneMinute == 60 * 1000

HasWindow(counts, userId) == counts[userId] # NoWindow

\* if (now > userRateLimit.resetTime)
WindowPassedAtReset(w, t) == t >= w.resetTime

WindowPassedNever(w, t) == FALSE

WindowPassed(w, t) == t > w.resetTime

\* if (userRateLimit.count >= 10)
LimitExceededOffByOne(w) == w.count > RateLimitMax

LimitExceeded(w) == w.count >= RateLimitMax

\* Math.ceil(a / b) for a >= 0
CeilDiv(a, b) == (a + b - 1) \div b

\* rateLimit with a window that restarts at a rejected request.
rateLimitExtending(counts, userId, t) ==
    IF userId = Missing
    THEN [counts |-> counts, next |-> FALSE, status |-> 401, resetInSeconds |-> 0]
    ELSE IF ~HasWindow(counts, userId) \/ WindowPassed(counts[userId], t)
    THEN [counts |-> [counts EXCEPT ![userId] =
                         [count |-> 1, resetTime |-> t + oneMinute]],
          next |-> TRUE, status |-> 0, resetInSeconds |-> 0]
    ELSE IF LimitExceeded(counts[userId])
    THEN [counts |-> [counts EXCEPT ![userId].resetTime = t + oneMinute + 1],
          next |-> FALSE, status |-> 429, resetInSeconds |-> 60]
    ELSE [counts |-> [counts EXCEPT ![userId].count = @ + 1],
          next |-> TRUE, status |-> 0, resetInSeconds |-> 0]

\* rateLimit(req, res, next) for req.user.id = userId (Missing: no req.user)
\* at Date.now() = t.  next: next() was called; resetInSeconds is in the 429
\* body.
rateLimit(counts, userId, t) ==
    IF userId = Missing
    THEN [counts |-> counts, next |-> FALSE, status |-> 401, resetInSeconds |-> 0]
    ELSE IF ~HasWindow(counts, userId)
    THEN [counts |-> [counts EXCEPT ![userId] =
                         [count |-> 1, resetTime |-> t + oneMinute]],
          next |-> TRUE, status |-> 0, resetInSeconds |-> 0]
    ELSE IF WindowPassed(counts[userId], t)
    THEN [counts |-> [counts EXCEPT ![userId] =
                         [count |-> 1, resetTime |-> t + oneMinute]],
          next |-> TRUE, status |-> 0, resetInSeconds |-> 0]
    ELSE IF LimitExceeded(counts[userId])
    THEN [counts |-> counts, next |-> FALSE, status |-> 429,
          resetInSeconds |-> CeilDiv(counts[userId].resetTime - t, 1000)]
    ELSE [counts |-> [counts EXCEPT ![userId].count = @ + 1],
          next |-> TRUE, status |-> 0, resetInSeconds |-> 0]

(***************************************************************************)
(* SpecRate: requests of the users reaching rateLimit while the clock      *)
(* advances, by a millisecond or by a minute.  SpecRateHist: the same for  *)
(* one user, keeping the times of the admissions of the last minute.       *)
(***************************************************************************)
\* What is recorded of a request that went through rateLimit at time t.
\* status 200 stands for the response of the handler next() led to;
\* resetInSeconds is that of the 429 body.
RateCall(userId, r, rolled, t) ==
    [op |-> "rateLimit", detail |-> IF r.next THEN "admitted" ELSE "rejected",
     user |-> userId,
     status |-> IF r.next THEN 200 ELSE r.status,
     body |-> IF r.next THEN "handler" ELSE "RateLimited",
     cancelled |-> Undefined, created |-> Undefined, threw |-> FALSE,
     changed |-> rolled, first |-> Undefined,
     time |-> t, resetInSeconds |-> r.resetInSeconds]

\* The user has a window and the clock has passed its resetTime.
RolledOver(userId, t) ==
    /\ HasWindow(requestCounts, userId)
    /\ t > requestCounts[userId].resetTime

\* The requests of the user in the window this request falls in, this one
\* included: the window runs from the request that created or reset it
\* until the clock passes its resetTime.
ArrivalsAfter(userId, t) ==
    IF ~HasWindow(requestCounts, userId) \/ t > requestCounts[userId].resetTime
    THEN 1
    ELSE arrivals[userId] + 1

\* The admissions of the last minute, after a request at time t.
AdmitsAfter(admitted, t) ==
    LET kept == SelectSeq(admits, LAMBDA a : a > t - oneMinute)
    IN  IF admitted THEN Append(kept, t) ELSE kept

InitRate ==
    /\ users = SeedUsers
    /\ subscriptions = <<>>
    /\ transactions = <<>>
    /\ requestCounts = [u \in UserIds |-> NoWindow]
    /\ now = 0
    /\ last = NoCall
    /\ procs = <<>>
    /\ arrivals = [u \in UserIds |-> 0]
    /\ admits = <<>>
    /\ tokens = {}
    /\ apiLogs = <<>>

rateIdle == <<users, subscriptions, transactions, procs, apiLogs, tokens>>

RateRequest(userId, keepTimes) ==
    LET r == rateLimit(requestCounts, userId, now)
    IN  /\ ArrivalsAfter(userId, now) <= MaxArrivals
        /\ requestCounts' = r.counts
        /\ arrivals' = [arrivals EXCEPT ![userId] = ArrivalsAfter(userId, now)]
        /\ admits' = IF keepTimes THEN AdmitsAfter(r.next, now) ELSE admits
        /\ last' = RateCall(userId, r, RolledOver(userId, now), now)
        /\ UNCHANGED now
        /\ UNCHANGED rateIdle

TickMs ==
    /\ now % oneMinute < MaxMs
    /\ now' = now + 1
    /\ UNCHANGED <<requestCounts, arrivals, admits, last>>
    /\ UNCHANGED rateIdle

TickMinute ==
    /\ now \div oneMinute < MaxMinutes
    /\ now' = now + oneMinute
    /\ UNCHANGED <<requestCounts, arrivals, admits, last>>
    /\ UNCHANGED rateIdle

NextRate ==
    \/ \E userId \in UserIds : RateRequest(userId, FALSE)
    \/ TickMs
    \/ TickMinute

SpecRate == InitRate /\ [][NextRate]_vars

HistUser == 2

NextRateHist ==
    \/ RateRequest(HistUser, TRUE)
    \/ TickMs
    \/ TickMinute

SpecRateHist == InitRate /\ [][NextRateHist]_vars

(***************************************************************************)
(* C6: for each user, of the requests made in one rate window (from the    *)
(* request that created or reset it until the clock passes its resetTime)  *)
(* the first 10 are admitted and the 11th and every later one is rejected  *)
(* with 429 without next() being called; the first request after the       *)
(* window has rolled over is admitted and sets the counter to 1.           *)
(***************************************************************************)
C6_WindowAdmitsTen ==
    last.op = "rateLimit" =>
        LET n == arrivals[last.user]
            w == requestCounts[last.user]
        IN  /\ n <= 10 => last.detail = "admitted" /\ w.count = n
            /\ n >= 11 => /\ last.detail = "rejected"
                          /\ last.status = 429
                          /\ last.body = "RateLimited"
                          /\ w.count = 10
            /\ last.changed => last.detail = "admitted" /\ w.count = 1 /\ n = 1

\* One user is admitted after its window rolled over while the other has
\* had its 11th request in its window rejected.
C6_Witness ==
    /\ last.op = "rateLimit"
    /\ last.changed
    /\ last.detail = "admitted"
    /\ requestCounts[last.user].count = 1
    /\ \E v \in UserIds \ {last.user} :
          arrivals[v] = 11 /\ requestCounts[v].count = 10

(***************************************************************************)
(* C7: for every user and every interval of 60 seconds, whatever its       *)
(* start, at most 10 requests of the user are admitted by rateLimit.       *)
(***************************************************************************)
C7_AtMostTenPerMinute ==
    \A i \in DOMAIN admits :
        Cardinality({j \in DOMAIN admits :
                        /\ admits[i] <= admits[j]
                        /\ admits[j] < admits[i] + oneMinute}) <= 10

(***************************************************************************)
(* Request paths.  A path is the sequence of its pieces, "/" and the text  *)
(* between, the text cut where a prefix that the code tests ends           *)
(* ("user", "-export"), so that String.startsWith is the prefix relation.  *)
(***************************************************************************)
\* path === prefix
StartsWithWhole(path, prefix) == path = prefix

StartsWith(path, prefix) ==
    /\ Len(prefix) <= Len(path)
    /\ SubSeq(path, 1, Len(prefix)) = prefix

\* app.use(mount, router): the router sees the request when the path starts
\* with the mount path at a segment boundary ...
MountedAt(path, mount) ==
    /\ StartsWith(path, mount)
    /\ Len(path) > Len(mount) => path[Len(mount) + 1] = "/"

\* ... and req.path inside the router is the rest of the path.
RelativePath(path, mount) ==
    IF Len(path) = Len(mount) THEN <<"/">>
    ELSE SubSeq(path, Len(mount) + 1, Len(path))

ApiMount == <<"/", "api">>
AdminMount == <<"/", "admin">>

(***************************************************************************)
(* auth.ts: authenticate and login.                                        *)
(***************************************************************************)
Headers == {"none", "malformed", "empty", "invalid", "valid"}

\* authenticate: the Authorization header is absent, is not a Bearer
\* header, carries no token, carries a token jwt.verify rejects, or carries
\* a valid token for user id tokenUser; req.user is then read from the
\* users table.
authenticate(us, header, tokenUser) ==
    IF header \in {"none", "malformed"}
    THEN [next |-> FALSE, status |-> 401, body |-> "AuthRequired", user |-> Missing]
    ELSE IF header = "empty"
    THEN [next |-> FALSE, status |-> 401, body |-> "TokenMissing", user |-> Missing]
    ELSE IF header = "invalid"
    THEN [next |-> FALSE, status |-> 401, body |-> "InvalidToken", user |-> Missing]
    ELSE IF tokenUser \notin DOMAIN us
    THEN [next |-> FALSE, status |-> 401, body |-> "InvalidToken", user |-> Missing]
    ELSE [next |-> TRUE, status |-> 0, body |-> "none", user |-> tokenUser]

\* authorizeRoles('admin')
authorizeRoles(us, reqUser) ==
    IF reqUser = Missing
    THEN [next |-> FALSE, status |-> 401, body |-> "AuthRequired"]
    ELSE IF us[reqUser] # "admin"
    THEN [next |-> FALSE, status |-> 403, body |-> "Forbidden"]
    ELSE [next |-> TRUE, status |-> 0, body |-> "none"]

Bodies == {"valid", "invalid", "rejected"}

\* login: a body without username or password, credentials that match no
\* user, or credentials of a user.  It reads the users table only.
login(body) ==
    IF body = "invalid" THEN [status |-> 400, body |-> "MissingCredentials"]
    ELSE IF body = "rejected" THEN [status |-> 401, body |-> "InvalidCredentials"]
    ELSE [status |-> 200, body |-> "LoginSuccessful"]

(***************************************************************************)
(* middleware.ts: checkSubscription.                                       *)
(***************************************************************************)
openPathsWithoutAuth ==
    { <<"/", "api", "/", "pricing">>,
      <<"/", "api", "/", "create-payment-intent">>,
      <<"/", "api", "/", "check-payment-status">>,
      <<"/", "api", "/", "webhook">>,
      <<"/", "api", "/", "subscriptions", "/", "subscribe">>,
      <<"/", "api", "/", "subscriptions", "/", "active">>,
      <<"/", "api", "/", "user">>,
      <<"/", "pricing">>,
      <<"/", "checkout">>,
      <<"/", "subscription-success">> }

openPaths ==
    { <<"/", "api", "/", "auth">>,
      <<"/", "api", "/", "pricing">>,
      <<"/", "api", "/", "create-payment-intent">>,
      <<"/", "api", "/", "check-payment-status">>,
      <<"/", "api", "/", "webhook">>,
      <<"/", "api", "/", "subscriptions", "/", "subscribe">>,
      <<"/", "api", "/", "subscriptions", "/", "active">>,
      <<"/", "api", "/", "user">>,
      <<"/", "pricing">>,
      <<"/", "auth">>,
      <<"/", "checkout">>,
      <<"/", "subscription-success">> }

\* openPaths.some(openPath => path.startsWith(openPath) || path === openPath)
IsOpenPath(path) ==
    \E openPath \in openPaths : StartsWith(path, openPath) \/ path = openPath

\* req.path.startsWith('/api/')
IsApiPath(path) == StartsWith(path, <<"/", "api", "/">>)

isDashboardRoute(path) ==
    \/ StartsWith(path, <<"/", "dashboard">>)
    \/ path \in { <<"/", "balance">>, <<"/", "transfer">>,
                  <<"/", "transactions">>, <<"/", "invoice">>,
                  <<"/", "subscription">> }

isProtectedApiEndpoint(path) ==
    /\ IsApiPath(path)
    /\ ~ \E p \in openPaths : StartsWith(path, p)

\* What a middleware did with the request: called next(), or answered.
\* lookup: it queried the subscriptions table; bypass: the query parameter
\* as the request carries it afterwards.
Checked(next, status, body, location, lookup, bypass) ==
    [next |-> next, status |-> status, body |-> body, location |-> location,
     lookup |-> lookup, bypass |-> bypass]

\* checkSubscription(req, res, next) for req.path = path, req.user = reqUser
\* (Missing: not set) and req.query.bypass === 'true' iff bypass.
checkSubscription(subs, us, path, reqUser, bypass) ==
    IF IsOpenPath(path)
    THEN Checked(TRUE, 0, "none", "none", FALSE, bypass)
    ELSE IF reqUser = Missing
    THEN IF IsApiPath(path)
         THEN Checked(FALSE, 401, "AuthRequired", "none", FALSE, bypass)
         ELSE Checked(FALSE, 302, "Redirect", "/auth", FALSE, bypass)
    ELSE IF us[reqUser] = "admin"
    THEN Checked(TRUE, 0, "none", "none", FALSE, bypass)
    ELSE IF isDashboardRoute(path) \/ isProtectedApiEndpoint(path)
    THEN IF ~IsApiPath(path) /\ bypass
         THEN Checked(TRUE, 0, "none", "none", FALSE, FALSE)
         ELSE IF getActiveSubscriptionByUserId(subs, reqUser) = {Undefined}
         THEN IF IsApiPath(path)
              THEN Checked(FALSE, 403, "SubscriptionRequired", "/pricing", TRUE, bypass)
              ELSE Checked(FALSE, 302, "Redirect", "/pricing", TRUE, bypass)
         ELSE Checked(TRUE, 0, "none", "none", TRUE, bypass)
    ELSE Checked(TRUE, 0, "none", "none", FALSE, bypass)

(***************************************************************************)
(* routes.ts: registerRoutes.  A request is followed through the routers   *)
(* in the order the routes and middleware are registered.                  *)
(***************************************************************************)
\* The outcome of a request: the response, the middleware and handler that
\* ran, and the tables afterwards.
Routed(status, body, location, lookup, handler, stages, counts, txs) ==
    [status |-> status, body |-> body, location |-> location,
     lookup |-> lookup, handler |-> handler, stages |-> stages,
     counts |-> counts, txs |-> txs]

\* storage.createTransaction
createTransaction(txs, userId) == Append(txs, userId)

\* The row storage.createApiLog inserts; the response time is that of a
\* request during which the clock does not advance.
ApiLogRow(userId, endpoint, method, statusCode) ==
    [userId |-> userId, endpoint |-> endpoint, method |-> method,
     statusCode |-> statusCode, responseTime |-> 0]

\* The routes of protectedRouter.
ProtectedRoutes ==
    { [method |-> "GET",  path |-> <<"/", "balance">>,      handler |-> "balance"],
      [method |-> "POST", path |-> <<"/", "transfer">>,     handler |-> "transfer"],
      [method |-> "GET",  path |-> <<"/", "transactions">>, handler |-> "transactions"],
      [method |-> "GET",  path |-> <<"/", "invoice">>,      handler |-> "invoice"] }

\* The routes of adminRouter, relative to /admin.
AdminRoutes ==
    { [method |-> "GET", path |-> <<"/", "users">>, handler |-> "users"] }

RouteOf(routes, method, path) ==
    {r \in routes : r.method = method /\ r.path = path}

\* The handlers of protectedRouter, for req.user.id = userId.
ProtectedHandler(handler, body, userId, stages, counts, txs) ==
    IF handler = "transfer"
    THEN IF body # "valid"
         THEN Routed(400, "InvalidInput", "none", FALSE, handler, stages, counts, txs)
         ELSE Routed(201, "TransferCompleted", "none", FALSE, handler, stages,
                     counts, createTransaction(txs, userId))
    ELSE Routed(200, handler, "none", FALSE, handler, stages, counts, txs)

\* No route answered: the request leaves the router.
Unrouted(lookup, stages, counts, txs) ==
    Routed(0, "Unrouted", "none", lookup, "none", stages, counts, txs)

\* apiRouter.use("/admin", authenticate, authorizeRoles('admin'), adminRouter)
adminRouter(us, req, path, lookup, stages, counts, txs) ==
    IF ~MountedAt(path, AdminMount)
    THEN Unrouted(lookup, stages, counts, txs)
    ELSE LET au == authenticate(us, req.header, req.tokenUser)
             ar == authorizeRoles(us, au.user)
             route == RouteOf(AdminRoutes, req.method, RelativePath(path, AdminMount))
             ran == stages \o <<"authenticate", "authorizeRoles">>
         IN  IF ~au.next
             THEN Routed(au.status, au.body, "none", lookup, "none",
                         stages \o <<"authenticate">>, counts, txs)
             ELSE IF ~ar.next
             THEN Routed(ar.status, ar.body, "none", lookup, "none", ran, counts, txs)
             ELSE IF route = {}
             THEN Unrouted(lookup, ran, counts, txs)
             ELSE LET h == (CHOOSE r \in route : TRUE).handler
                  IN  Routed(200, h, "none", lookup, h, Append(ran, h), counts, txs)

\* protectedRouter: use(authenticate, logRequest, rateLimit), then its routes;
\* a request none of them answers goes on to the admin routes.
protectedRouter(us, counts, txs, t, req, path, lookup, stages) ==
    LET au == authenticate(us, req.header, req.tokenUser)
        rl == rateLimit(counts, au.user, t)
        route == RouteOf(ProtectedRoutes, req.method, path)
        ran == stages \o <<"authenticate", "logRequest", "rateLimit">>
    IN  IF ~au.next
        THEN Routed(au.status, au.body, "none", lookup, "none",
                    stages \o <<"authenticate">>, counts, txs)
        ELSE IF ~rl.next
        THEN Routed(rl.status, "RateLimited", "none", lookup, "none", ran,
                    rl.counts, txs)
        ELSE IF route = {}
        THEN adminRouter(us, req, path, lookup, ran, rl.counts, txs)
        ELSE LET h == (CHOOSE r \in route : TRUE).handler
                 out == ProtectedHandler(h, req.body, au.user, Append(ran, h),
                                         rl.counts, txs)
             IN  [out EXCEPT !.lookup = lookup]

\* apiRouter, for req.path = path: the routes registered before
\* checkSubscription, then checkSubscription, then the routers registered
\* after it.  req.user is not set when checkSubscription runs: authenticate
\* is registered on the routers behind it.
apiRouter(subs, us, counts, txs, t, req, path) ==
    IF req.method = "POST" /\ path = <<"/", "auth", "/", "login">>
    THEN LET r == login(req.body)
         IN  Routed(r.status, r.body, "none", FALSE, "login", <<"login">>, counts, txs)
    ELSE LET cs == checkSubscription(subs, us, path, Missing, req.bypass)
         IN  IF ~cs.next
             THEN Routed(cs.status, cs.body, cs.location, cs.lookup, "none",
                         <<"checkSubscription">>, counts, txs)
             ELSE protectedRouter(us, counts, txs, t, req, path, cs.lookup,
                                  <<"checkSubscription">>)

\* What answers a request that no route of registerRoutes answered: the
\* middleware the server installs after registerRoutes, or Express itself.
FinalResponses ==
    { [status |-> 404, body |-> "NotFound"],
      [status |-> 200, body |-> "Frontend"] }

\* logRequest has set req.startTime: it runs, after authenticate has set
\* req.user, on the way into protectedRouter only.
HasStartTime(stages) == \E i \in DOMAIN stages : stages[i] = "logRequest"

\* storage.createApiLog: an async function, so a failure of the INSERT
\* (fault) is a rejected promise.
createApiLog(logs, row, fault) ==
    IF fault
    THEN [logs |-> logs, rejected |-> TRUE]
    ELSE [logs |-> Append(logs, row), rejected |-> FALSE]

\* The res.end that logResponse installs, called with res.statusCode =
\* statusCode: if (req.user && req.startTime)
\* storage.createApiLog(...).catch(...), then the original res.end.
\* threw: an error left the wrapper; discarded: the catch ran.
logResponseUncaught(logs, req, stages, statusCode, fault) ==
    IF HasStartTime(stages)
    THEN LET w == createApiLog(logs, ApiLogRow(req.tokenUser, req.path, req.method,
                                               statusCode), fault)
         IN  [logs |-> w.logs, threw |-> w.rejected, discarded |-> FALSE]
    ELSE [logs |-> logs, threw |-> FALSE, discarded |-> FALSE]

logResponse(logs, req, stages, statusCode, fault) ==
    IF HasStartTime(stages)
    THEN LET w == createApiLog(logs, ApiLogRow(req.tokenUser, req.path, req.method,
                                               statusCode), fault)
         IN  [logs |-> w.logs, threw |-> FALSE, discarded |-> w.rejected]
    ELSE [logs |-> logs, threw |-> FALSE, discarded |-> FALSE]

\* app.use(logResponse), registered after app.use("/api", apiRouter): it is
\* reached by the requests the router left unanswered, which are then
\* answered with final (an error that leaves res.end replaces the answer
\* by Express's 500).  A request answered inside the router never passes
\* it.
AfterRouter(out, logs, req, final, fault) ==
    IF out.body = "Unrouted"
    THEN LET lr == logResponse(logs, req, out.stages, final.status, fault)
         IN  [status |-> IF lr.threw THEN 500 ELSE final.status,
              body |-> IF lr.threw THEN "InternalError" ELSE final.body,
              location |-> out.location,
              lookup |-> out.lookup, handler |-> out.handler,
              stages |-> Append(out.stages, "logResponse"),
              counts |-> out.counts, txs |-> out.txs,
              logs |-> lr.logs, discarded |-> lr.discarded]
    ELSE [status |-> out.status, body |-> out.body, location |-> out.location,
          lookup |-> out.lookup, handler |-> out.handler, stages |-> out.stages,
          counts |-> out.counts, txs |-> out.txs, logs |-> logs,
          discarded |-> FALSE]

\* app.use("/api", apiRouter); app.use(logResponse)
registerRoutes(subs, us, counts, txs, logs, t, req, final, fault) ==
    AfterRouter(IF MountedAt(req.path, ApiMount)
                THEN apiRouter(subs, us, counts, txs, t, req,
                               RelativePath(req.path, ApiMount))
                ELSE Unrouted(FALSE, <<>>, counts, txs),
                logs, req, final, fault)

\* The routers registered behind checkSubscription, for a request it has
\* called next() on.
BehindCheckSubscription(us, counts, txs, logs, t, req, final, fault) ==
    AfterRouter(protectedRouter(us, counts, txs, t, req,
                                RelativePath(req.path, ApiMount), FALSE,
                                <<"checkSubscription">>),
                logs, req, final, fault)

(***************************************************************************)
(* SpecGate: a client's request, procs[1], routed through registerRoutes  *)
(* and sent again; the routers behind checkSubscription given a request    *)
(* it handed on; and checkSubscription applied as a middleware to a        *)
(* request whose req.user is already set or not.  The ledger is one of     *)
(* GateStartTables and is not changed.                                     *)
(***************************************************************************)
LoginPath == <<"/", "api", "/", "auth", "/", "login">>
BalancePath == <<"/", "api", "/", "balance">>
TransferPath == <<"/", "api", "/", "transfer">>
TransactionsPath == <<"/", "api", "/", "transactions">>
InvoicePath == <<"/", "api", "/", "invoice">>
AdminUsersPath == <<"/", "api", "/", "admin", "/", "users">>
DashboardPath == <<"/", "dashboard">>

GatedPaths == {BalancePath, TransferPath, TransactionsPath, InvoicePath}

\* /api/user-export: no route, a path that starts with the open path
\* /api/user without being under it.
UserExportPath == <<"/", "api", "/", "user", "-export">>

RequestPaths ==
    GatedPaths \cup {LoginPath, AdminUsersPath, DashboardPath, UserExportPath}

\* The method each gated route is registered with.
GatedMethod(path) == IF path = TransferPath THEN "POST" ELSE "GET"

\* The requests sent: a body is told apart for the two POST routes only, and
\* the token's user for a valid token only.
GateRequests ==
    {req \in [method : {"GET", "POST"}, path : RequestPaths, header : Headers,
              tokenUser : UserIds, body : Bodies, bypass : BOOLEAN] :
        /\ req.header # "valid" => req.tokenUser = 1
        /\ req.body = "rejected" => req.path = LoginPath /\ req.method = "POST"
        /\ req.body = "invalid" =>
              req.path \in {LoginPath, TransferPath} /\ req.method = "POST"
        /\ req.bypass => req.path \in {TransferPath, DashboardPath}}

\* The paths checkSubscription is applied to: as the client sends them and
\* as a router mounted at /api sees them.
CheckPaths ==
    RequestPaths \cup {RelativePath(p, ApiMount) : p \in RequestPaths \ {DashboardPath}}

GateStartTables ==
    { <<>>,
      <<[id |-> 1, userId |-> 2, plan |-> "standard", active |-> TRUE,
         startDate |-> 0, endDate |-> Null]>>,
      <<[id |-> 1, userId |-> 2, plan |-> "standard", active |-> FALSE,
         startDate |-> 0, endDate |-> 0]>> }

\* A user has made no request yet, or as many as one window admits.
GateStartWindows ==
    {NoWindow, [count |-> RateLimitMax, resetTime |-> oneMinute]}

GateCall(op, req, r, changed, logged) ==
    [op |-> op, method |-> req.method, path |-> req.path,
     header |-> req.header, user |-> req.tokenUser, bypass |-> req.bypass,
     status |-> r.status, body |-> r.body, location |-> r.location,
     lookup |-> r.lookup, handler |-> r.handler, stages |-> r.stages,
     changed |-> changed, logged |-> logged, discarded |-> r.discarded]

InitGate ==
    /\ users = SeedUsers
    /\ subscriptions \in GateStartTables
    /\ transactions = <<>>
    /\ requestCounts \in [UserIds -> GateStartWindows]
    /\ now = 0
    /\ last = NoCall
    /\ procs \in {<<req>> : req \in GateRequests}
    /\ arrivals = <<>>
    /\ admits = <<>>
    /\ tokens = {}
    /\ apiLogs = <<>>

gateIdle == <<users, subscriptions, now, procs, arrivals, admits, tokens>>

\* The tables stay within the bounds of the model.
GateBounded(r) ==
    /\ \A u \in UserIds :
          r.counts[u].count \in (0..MaxGateCount) \cup {RateLimitMax}
    /\ Len(r.txs) <= MaxGateRows
    /\ Len(r.logs) <= MaxGateRows

\* The requests of a user with a token to the routes of protectedRouter.
ProtectedRequests ==
    {req \in GateRequests :
        /\ req.path \in GatedPaths
        /\ req.method = GatedMethod(req.path)
        /\ req.header = "valid"
        /\ ~req.bypass}

Request ==
    \E req \in {procs[1]} :
        \E r \in {registerRoutes(subscriptions, users, requestCounts, transactions,
                                 apiLogs, now, req, final, fault) :
                     final \in FinalResponses, fault \in BOOLEAN} :
            /\ GateBounded(r)
            /\ requestCounts' = r.counts
            /\ transactions' = r.txs
            /\ apiLogs' = r.logs
            /\ last' = GateCall("request", req, r, r.txs # transactions,
                                r.logs # apiLogs)
            /\ UNCHANGED gateIdle

\* A request that checkSubscription has called next() on goes through the
\* routers registered behind it.
Protected ==
    \E req \in {procs[1]} \cap ProtectedRequests :
        \E r \in {BehindCheckSubscription(users, requestCounts, transactions,
                                          apiLogs, now, req, final, fault) :
                     final \in FinalResponses, fault \in BOOLEAN} :
            /\ GateBounded(r)
            /\ requestCounts' = r.counts
            /\ transactions' = r.txs
            /\ apiLogs' = r.logs
            /\ last' = GateCall("protected", req, r, r.txs # transactions,
                                r.logs # apiLogs)
            /\ UNCHANGED gateIdle

\* The request's path as checkSubscription sees it: as sent, or relative to
\* the router mounted at /api.
SeenPaths(path) ==
    {seen \in CheckPaths :
        \/ seen = path
        \/ MountedAt(path, ApiMount) /\ seen = RelativePath(path, ApiMount)}

CheckSubscription ==
    \E path \in SeenPaths(procs[1].path), reqUser \in {Missing} \cup UserIds,
       bypass \in BOOLEAN :
        \E cs \in {checkSubscription(subscriptions, users, path, reqUser, bypass)} :
            /\ last' = [op |-> "checkSubscription", method |-> "GET",
                        path |-> path,
                        header |-> IF reqUser = Missing THEN "none" ELSE "valid",
                        user |-> reqUser, bypass |-> cs.bypass,
                        status |-> cs.status, body |-> cs.body,
                        location |-> cs.location, lookup |-> cs.lookup,
                        handler |-> "none", stages |-> <<"checkSubscription">>,
                        changed |-> FALSE, logged |-> FALSE,
                        discarded |-> FALSE, bypassParam |-> bypass]
            /\ admits' = IF bypass /\ ~cs.bypass /\ Len(admits) < MaxBypass
                         THEN Append(admits, reqUser)
                         ELSE admits
            /\ UNCHANGED <<requestCounts, transactions, apiLogs, users,
                           subscriptions, now, procs, arrivals, tokens>>

NextGate ==
    \/ Request
    \/ CheckSubscription
    \/ Protected

SpecGate == InitGate /\ [][NextGate]_vars

\* The request of the last call carried a valid token of a user who is not
\* an admin / is an admin, and who has no active subscription.
ValidTokenNoSubscription(role) ==
    /\ last.header = "valid"
    /\ (users[last.user] = "admin") = (role = "admin")
    /\ ActiveIds(subscriptions, last.user) = {}

(***************************************************************************)
(* C8: a request to /api/auth/login never makes checkSubscription query    *)
(* the subscriptions table and is never answered SubscriptionRequired,     *)
(* with no token, an invalid token or a valid token of a user without a    *)
(* subscription; neither routed through registerRoutes nor when            *)
(* checkSubscription is handed the request with req.user set.              *)
(***************************************************************************)
C8_LoginNeverChecked ==
    (/\ last.op \in {"request", "checkSubscription"}
     /\ last.path \in {LoginPath, RelativePath(LoginPath, ApiMount)}) =>
        /\ ~last.lookup
        /\ last.body # "SubscriptionRequired"

\* A login with a valid token of a developer without a subscription.
C8_Witness ==
    /\ last.op = "request"
    /\ last.path = LoginPath
    /\ last.method = "POST"
    /\ ValidTokenNoSubscription("developer")
    /\ last.handler = "login"
    /\ last.status = 200

(***************************************************************************)
(* C9: POST /api/transfer with a valid token of a non-admin user who has   *)
(* no active subscription, routed through registerRoutes, is answered 403  *)
(* SubscriptionRequired with the redirect hint /pricing; the transfer      *)
(* handler does not run and no transaction row is created.                 *)
(***************************************************************************)
C9_TransferDenied ==
    (/\ last.op = "request"
     /\ last.path = TransferPath
     /\ last.method = "POST"
     /\ ValidTokenNoSubscription("developer")) =>
        /\ last.status = 403
        /\ last.body = "SubscriptionRequired"
        /\ last.location = "/pricing"
        /\ last.handler # "transfer"
        /\ ~last.changed

(***************************************************************************)
(* C10: a request with a valid token of an admin who has no active         *)
(* subscription to /api/balance, /api/transfer, /api/transactions or       *)
(* /api/invoice passes checkSubscription without a query of the            *)
(* subscriptions table and reaches the handler, unless rateLimit rejects   *)
(* it.                                                                     *)
(***************************************************************************)
C10_AdminAdmitted ==
    (/\ last.op = "request"
     /\ last.path \in GatedPaths
     /\ last.method = GatedMethod(last.path)
     /\ ValidTokenNoSubscription("admin")) =>
        /\ ~last.lookup
        /\ last.handler # "none" \/ last.status = 429

(***************************************************************************)
(* Pagination: GET /transactions and GET /admin/logs (routes.ts), over     *)
(* getTransactionsByUserId, getApiLogs and getUserApiLogs (storage.ts).    *)
(***************************************************************************)
\* parseInt of a query parameter that is absent or not a number.
NaN == -999

\* a || d: NaN and 0 are falsy.
OrDefaultZeroKept(a, d) == IF a = NaN THEN d ELSE a

OrDefault(a, d) == IF a = NaN \/ a = 0 THEN d ELSE a

Min(a, b) == IF a < b THEN a ELSE b
Max(a, b) == IF a > b THEN a ELSE b

\* if (page < 1 || pageSize < 1 || pageSize > 100)
InvalidPagination(page, pageSize) == page < 1 \/ pageSize < 1 \/ pageSize > 100

\* SELECT COUNT(*) ... WHERE user_id = ?  (NaN: no filter, every row)
CountRows(rows, userId) ==
    Cardinality({i \in DOMAIN rows : userId = NaN \/ rows[i].userId = userId})

\* The number of rows SELECT ... LIMIT pageSize OFFSET (page - 1) * pageSize
\* returns out of total.
PageRowsWholeTable(total, page, pageSize) == total

PageRows(total, page, pageSize) ==
    LET offset == (page - 1) * pageSize
    IN  Min(pageSize, Max(0, total - offset))

\* The response of a paginated endpoint: the number of rows in data and
\* the pagination envelope.
Paginated(status, body, rows, page, pageSize, total, totalPages) ==
    [status |-> status, body |-> body, rows |-> rows, page |-> page,
     pageSize |-> pageSize, total |-> total, totalPages |-> totalPages]

\* The handler of both endpoints, over the rows of the table that are the
\* user's (of every user for userId = NaN): pageQuery and sizeQuery are
\* parseInt of req.query.page and req.query.pageSize.
PaginatedHandler(body, rows, userId, pageQuery, sizeQuery) ==
    LET page == OrDefault(pageQuery, 1)
        pageSize == OrDefault(sizeQuery, 10)
        total == CountRows(rows, userId)
    IN  IF InvalidPagination(page, pageSize)
        THEN Paginated(400, "InvalidPagination", 0, page, pageSize, 0, 0)
        ELSE Paginated(200, body, PageRows(total, page, pageSize), page,
                       pageSize, total, CeilDiv(total, pageSize))

\* GET /transactions for req.user.id = userId
TransactionsHandler(txs, userId, pageQuery, sizeQuery) ==
    PaginatedHandler("transactions", [i \in DOMAIN txs |-> [userId |-> txs[i]]],
                     userId, pageQuery, sizeQuery)

\* GET /admin/logs; userQuery is parseInt of req.query.userId, NaN without it
AdminLogsHandler(logs, userQuery, pageQuery, sizeQuery) ==
    PaginatedHandler("logs", logs, OrDefault(userQuery, NaN), pageQuery, sizeQuery)

(***************************************************************************)
(* SpecPage: one paginated request in flight over tables of up to          *)
(* MaxRecords rows of the developer and one row of the admin.              *)
(***************************************************************************)
PageQueries == {NaN} \cup (-1 .. MaxPageQuery)
SizeQueries == {NaN} \cup (-1 .. MaxSizeQuery)

\* user: the caller of GET /transactions, the userId query of GET /admin/logs
PageRequests ==
    [op : {"transactions"}, user : UserIds,
     page : PageQueries, pageSize : SizeQueries]
    \cup [op : {"logs"}, user : UserIds \cup {NaN},
          page : PageQueries, pageSize : SizeQueries]

\* n rows of user 2 and k rows of user 1
RowOwners(n, k) == [i \in 1..(n + k) |-> IF i <= n THEN 2 ELSE 1]

InitPage ==
    /\ users = SeedUsers
    /\ subscriptions = <<>>
    /\ \E n \in 0..MaxRecords, k \in 0..1 :
          /\ transactions = RowOwners(n, k)
          /\ apiLogs = [i \in 1..(n + k) |->
                           ApiLogRow(RowOwners(n, k)[i], "/api/balance", "GET", 200)]
    /\ requestCounts = [u \in UserIds |-> NoWindow]
    /\ now = 0
    /\ last = NoCall
    /\ procs \in {<<req>> : req \in PageRequests}
    /\ arrivals = <<>>
    /\ admits = <<>>
    /\ tokens = {}

pageIdle == <<users, subscriptions, transactions, requestCounts, now, arrivals,
              admits, apiLogs, tokens>>

PageCall(req, r) ==
    [op |-> req.op, user |-> req.user, pageQuery |-> req.page,
     sizeQuery |-> req.pageSize, status |-> r.status, body |-> r.body,
     rows |-> r.rows, page |-> r.page, pageSize |-> r.pageSize,
     total |-> r.total, totalPages |-> r.totalPages]

GetTransactions ==
    /\ procs # <<>>
    /\ procs[1].op = "transactions"
    /\ last' = PageCall(procs[1],
                 TransactionsHandler(transactions, procs[1].user,
                                     procs[1].page, procs[1].pageSize))
    /\ procs' = <<>>
    /\ UNCHANGED pageIdle

GetAdminLogs ==
    /\ procs # <<>>
    /\ procs[1].op = "logs"
    /\ last' = PageCall(procs[1],
                 AdminLogsHandler(apiLogs, procs[1].user,
                                  procs[1].page, procs[1].pageSize))
    /\ procs' = <<>>
    /\ UNCHANGED pageIdle

NextPage ==
    \/ GetTransactions
    \/ GetAdminLogs

SpecPage == InitPage /\ [][NextPage]_vars

\* The rows of the table that the call of last ranges over.
PageTotal ==
    IF last.op = "transactions" THEN CountRows([i \in DOMAIN transactions |->
                                        [userId |-> transactions[i]]], last.user)
    ELSE CountRows(apiLogs, last.user)

(***************************************************************************)
(* C11: GET /transactions and GET /admin/logs answer 400 without data to   *)
(* every request with page < 1 or pageSize outside 1..100, pageSize = 0,   *)
(* pageSize = 101 and page = 0 among them; none is served with a default   *)
(* value instead.                                                          *)
(***************************************************************************)
C11_OutOfRangeRejected ==
    (/\ last.op \in {"transactions", "logs"}
     /\ last.pageQuery # NaN /\ last.sizeQuery # NaN
     /\ \/ last.pageQuery < 1
        \/ last.sizeQuery < 1
        \/ last.sizeQuery > 100) =>
        last.status = 400 /\ last.rows = 0

(***************************************************************************)
(* C12: for page >= 1 and pageSize in 1..100 the response carries          *)
(* min(pageSize, max(0, total - (page - 1) * pageSize)) rows, reports      *)
(* total, and totalPages = ceil(total / pageSize); page 2 of size 10 over  *)
(* 15 rows has 5 rows and totalPages 2.                                    *)
(***************************************************************************)
C12_PageEnvelope ==
    (/\ last.op \in {"transactions", "logs"}
     /\ last.pageQuery # NaN /\ last.sizeQuery # NaN
     /\ last.pageQuery >= 1
     /\ last.sizeQuery \in 1..100) =>
        LET total == PageTotal
            left == total - (last.pageQuery - 1) * last.sizeQuery
        IN  /\ last.status = 200
            /\ last.page = last.pageQuery /\ last.pageSize = last.sizeQuery
            /\ last.rows = (IF left < 0 THEN 0
                            ELSE IF left < last.sizeQuery THEN left
                            ELSE last.sizeQuery)
            /\ last.total = total
            /\ last.totalPages * last.sizeQuery >= total
            /\ (last.totalPages - 1) * last.sizeQuery < total
            /\ last.totalPages >= 0
            /\ (last.pageQuery = 2 /\ last.sizeQuery = 10 /\ total = 15) =>
                   last.rows = 5 /\ last.totalPages = 2

\* Page 2 of size 10 over the 15 transactions of the developer.
C12_Witness ==
    /\ last.op = "transactions"
    /\ last.user = 2
    /\ last.pageQuery = 2 /\ last.sizeQuery = 10
    /\ PageTotal = 15
    /\ last.rows = 5 /\ last.totalPages = 2 /\ last.total = 15

(***************************************************************************)
(* auth.ts: generateToken (jwt.sign) and the jwt.verify of authenticate.   *)
(* A token is its payload: the four fields generateToken embeds, and the   *)
(* iat and exp jwt.sign adds, in seconds.                                  *)
(***************************************************************************)
\* JWT_EXPIRES_IN = '24h', in seconds
JwtExpiresInTwoDays == 48 * 3600

JWT_EXPIRES_IN == 24 * 3600

\* The row of user id in the users table, without the password.
UserRow(us, id) ==
    [id |-> id, username |-> SeedUsers[id], email |-> SeedUsers[id],
     role |-> us[id]]

\* Date.now() in the seconds jwt counts in
Seconds(t) == t \div 1000

generateTokenRoleless(user, t) ==
    [id |-> user.id, username |-> user.username, email |-> user.email,
     role |-> "developer",
     iat |-> Seconds(t), exp |-> Seconds(t) + JWT_EXPIRES_IN]

\* generateToken(user) at Date.now() = t
generateToken(user, t) ==
    [id |-> user.id, username |-> user.username, email |-> user.email,
     role |-> user.role,
     iat |-> Seconds(t), exp |-> Seconds(t) + JWT_EXPIRES_IN]

\* jwt.verify(token, JWT_SECRET) at Date.now() = t, for a token this server
\* signed: the payload, or TokenExpiredError from exp on.
verify(token, t) ==
    IF Seconds(t) >= token.exp
    THEN [ok |-> FALSE, error |-> "TokenExpiredError", decoded |-> Missing]
    ELSE [ok |-> TRUE, error |-> "none", decoded |-> token]

\* authenticate for a request carrying the token as its Bearer header:
\* verified, the user is read from the users table by decoded.id, and
\* req.user is that row.
AuthenticateTokenFromClaims(us, token, t) ==
    LET v == verify(token, t)
    IN  [verify |-> v,
         status |-> IF v.ok THEN 0 ELSE 401,
         body |-> IF v.ok THEN "none" ELSE "InvalidToken",
         next |-> v.ok,
         reqUser |-> IF v.ok
                     THEN [id |-> token.id, username |-> token.username,
                           email |-> token.email, role |-> token.role]
                     ELSE Missing]

AuthenticateToken(us, token, t) ==
    LET v == verify(token, t)
        au == authenticate(us, IF v.ok THEN "valid" ELSE "invalid", token.id)
    IN  [verify |-> v, status |-> au.status, body |-> au.body, next |-> au.next,
         reqUser |-> IF au.next THEN UserRow(us, au.user) ELSE Missing]

(***************************************************************************)
(* SpecToken: tokens are issued to the users, the clock advances by a      *)
(* second or a day, rows of the users table are changed or deleted behind  *)
(* the server, and requests carrying an issued token are authenticated.    *)
(***************************************************************************)
oneDay == 24 * 3600 * 1000

Roles == {"admin", "developer"}

InitToken ==
    /\ users = SeedUsers
    /\ subscriptions = <<>>
    /\ transactions = <<>>
    /\ requestCounts = [u \in UserIds |-> NoWindow]
    /\ now = 0
    /\ last = NoCall
    /\ procs = <<>>
    /\ arrivals = <<>>
    /\ admits = <<>>
    /\ apiLogs = <<>>
    /\ tokens = {}

tokenIdle == <<subscriptions, transactions, requestCounts, procs, arrivals,
               admits, apiLogs>>

\* login or register answering with generateToken(userWithoutPassword).
\* issued: the row the token was issued for.
IssueToken(id) ==
    /\ id \in DOMAIN users
    /\ Cardinality(tokens) < MaxTokens
    /\ tokens' = tokens \cup {generateToken(UserRow(users, id), now)}
    /\ last' = [op |-> "generateToken", token |-> generateToken(UserRow(users, id), now),
                issued |-> UserRow(users, id), time |-> now]
    /\ UNCHANGED <<users, now>>
    /\ UNCHANGED tokenIdle

\* A request with an issued token reaches authenticate.
Authenticate(token) ==
    /\ token \in tokens
    /\ \E r \in {AuthenticateToken(users, token, now)} :
          last' = [op |-> "authenticate", token |-> token, time |-> now,
                   verify |-> r.verify.error, decoded |-> r.verify.decoded,
                   status |-> r.status, body |-> r.body, next |-> r.next,
                   reqUser |-> r.reqUser, store |-> users]
    /\ UNCHANGED <<users, now, tokens>>
    /\ UNCHANGED tokenIdle

\* The users table is written outside the API: a role is changed ...
StoreSetRole(id, role) ==
    /\ id \in DOMAIN users
    /\ users[id] # role
    /\ users' = [users EXCEPT ![id] = role]
    /\ UNCHANGED <<now, tokens, last>>
    /\ UNCHANGED tokenIdle

\* ... or a row is deleted.
StoreDeleteUser(id) ==
    /\ id \in DOMAIN users
    /\ users' = [u \in DOMAIN users \ {id} |-> users[u]]
    /\ UNCHANGED <<now, tokens, last>>
    /\ UNCHANGED tokenIdle

TickSecond ==
    /\ Seconds(now) % Seconds(oneDay) < MaxSeconds
    /\ now' = now + 1000
    /\ UNCHANGED <<users, tokens, last>>
    /\ UNCHANGED tokenIdle

TickDay ==
    /\ now \div oneDay < MaxDays
    /\ now' = now + oneDay
    /\ UNCHANGED <<users, tokens, last>>
    /\ UNCHANGED tokenIdle

NextToken ==
    \/ \E id \in UserIds : IssueToken(id)
    \/ \E token \in tokens : Authenticate(token)
    \/ \E id \in UserIds, role \in Roles : StoreSetRole(id, role)
    \/ \E id \in UserIds : StoreDeleteUser(id)
    \/ TickSecond
    \/ TickDay

SpecToken == InitToken /\ [][NextToken]_vars

\* The four fields of an identity.
Identity(r) ==
    [id |-> r.id, username |-> r.username, email |-> r.email, role |-> r.role]

(***************************************************************************)
(* C13: a token issued for a user verifies at every time before its        *)
(* expiry, 24 hours after it was issued, and yields the id, username,      *)
(* email and role it was issued for; once the clock has passed the expiry  *)
(* verification fails as expired and the request is answered 401.          *)
(***************************************************************************)
C13_TokenRoundTrip ==
    /\ last.op = "generateToken" =>
          /\ Identity(last.token) = last.issued
          /\ last.token.exp = Seconds(last.time) + 24 * 3600
    /\ last.op = "authenticate" =>
          /\ Seconds(last.time) < last.token.iat + 24 * 3600 =>
                /\ last.verify = "none"
                /\ Identity(last.decoded) = Identity(last.token)
          /\ Seconds(last.time) > last.token.iat + 24 * 3600 =>
                /\ last.verify = "TokenExpiredError"
                /\ last.status = 401
                /\ ~last.next
                /\ last.reqUser = Missing

\* A token of the admin was verified a second before its expiry, and the
\* clock has since passed the expiry of a token that is then refused.
C13_Witness ==
    /\ last.op = "authenticate"
    /\ last.verify = "TokenExpiredError"
    /\ last.status = 401
    /\ Seconds(last.time) > last.token.exp
    /\ last.token.role = "admin"

(***************************************************************************)
(* C14 as stated: on a valid token the identity attached to the request    *)
(* is the token's embedded id, username, email and role, with no lookup    *)
(* in the users table; a role changed or a user removed after the token    *)
(* was issued does not affect authentication.                              *)
(***************************************************************************)
C14_TokenAlone ==
    (last.op = "authenticate" /\ last.verify = "none") =>
        /\ last.next
        /\ last.reqUser = Identity(last.token)

(***************************************************************************)
(* C14 as the code has it: on a valid token authenticate reads the user    *)
(* from the users table by the token's id and attaches that row, so the    *)
(* role is the table's current one; a token whose user is no longer in     *)
(* the table is answered 401.                                              *)
(***************************************************************************)
C14_StoreDecides ==
    (last.op = "authenticate" /\ last.verify = "none") =>
        IF last.token.id \in DOMAIN last.store
        THEN /\ last.next
             /\ last.reqUser = UserRow(last.store, last.token.id)
        ELSE /\ ~last.next
             /\ last.status = 401
             /\ last.reqUser = Missing

\* A token issued to an admin, presented after the admin was made a
\* developer in the table: the request runs as a developer.
C14_Witness ==
    /\ last.op = "authenticate"
    /\ last.verify = "none"
    /\ last.token.role = "admin"
    /\ last.next
    /\ last.reqUser.role = "developer"

(***************************************************************************)
(* SpecDated: subscribe, cancel and the admin's cancel called one at a     *)
(* time while the clock advances, so that rows carry different dates.      *)
(***************************************************************************)
TickLedger ==
    /\ now < MaxClock
    /\ now' = now + 1
    /\ UNCHANGED <<users, subscriptions, transactions, requestCounts, last, procs,
                   arrivals, admits, apiLogs, tokens>>

NextDated ==
    \/ Subscribe
    \/ Cancel
    \/ AdminCancel
    \/ TickLedger

SpecDated == InitLedger /\ [][NextDated]_vars

(***************************************************************************)
(* C15: subscribe with a valid body, the storage calls succeeding: for a   *)
(* user who has an active subscription it is answered 400                  *)
(* AlreadySubscribed and the table is unchanged; for a user without one    *)
(* it appends exactly one row, active, with startDate = now, endDate null, *)
(* the caller as user and the requested plan.                              *)
(***************************************************************************)
C15_SubscribeOutcome ==
    [][(/\ last'.op = "subscribe"
        /\ last'.detail \in Plans
        /\ ~last'.threw
        /\ last' # last \/ subscriptions' # subscriptions) =>
          IF ActiveIds(subscriptions, last'.user) # {}
          THEN /\ last'.status = 400
               /\ last'.body = "AlreadySubscribed"
               /\ subscriptions' = subscriptions
          ELSE /\ last'.status = 201
               /\ subscriptions' =
                     Append(subscriptions,
                            [id |-> Len(subscriptions) + 1, userId |-> last'.user,
                             plan |-> last'.detail, active |-> TRUE,
                             startDate |-> now, endDate |-> Null])]_vars

\* A user subscribes again after a cancellation, later on the clock.
C15_Witness ==
    /\ last.op = "subscribe"
    /\ last.status = 201
    /\ last.created = 2
    /\ subscriptions[2].startDate = now /\ now > 0
    /\ subscriptions[2].active /\ subscriptions[2].endDate = Null
    /\ subscriptions[1].userId = last.user /\ ~subscriptions[1].active

(***************************************************************************)
(* C16: when cancelSubscription or createSubscription (or the lookup       *)
(* before them) throws while GET /check-payment-status reconciles, the     *)
(* caller gets an error response and not the 200 response with the         *)
(* payment status.                                                         *)
(***************************************************************************)
C16_PollFailureSurfaced ==
    (/\ last.op = "poll"
     /\ last.detail \in {"force", "succeeded"}
     /\ last.threw) =>
        /\ last.status >= 400
        /\ last.body # "paymentStatus"

(***************************************************************************)
(* C17: for every request to a protected endpoint the steps run in the     *)
(* order authenticate, checkSubscription, rateLimit, handler; in           *)
(* particular checkSubscription never runs before authenticate has         *)
(* established the identity of the request.                                *)
(***************************************************************************)
C17_GateOrder ==
    (/\ last.op = "request"
     /\ last.path \in GatedPaths
     /\ last.method = GatedMethod(last.path)) =>
        LET rank(stage) == IF stage = "authenticate" THEN 1
                           ELSE IF stage = "checkSubscription" THEN 2
                           ELSE IF stage = "logRequest" THEN 2
                           ELSE IF stage = "rateLimit" THEN 3
                           ELSE 4
        IN  /\ \A i, j \in DOMAIN last.stages :
                  i < j => rank(last.stages[i]) <= rank(last.stages[j])
            /\ \A i \in DOMAIN last.stages :
                  last.stages[i] = "checkSubscription" =>
                      \E j \in 1..(i - 1) : last.stages[j] = "authenticate"

(***************************************************************************)
(* C18: a request that authenticate, checkSubscription and rateLimit have  *)
(* all admitted and that a handler has answered, with success or with an   *)
(* error status, has one row {userId, endpoint, method, statusCode,        *)
(* responseTime} with the status of the answer written to api_logs.        *)
(***************************************************************************)
C18_AdmittedAudited ==
    (/\ last.op \in {"request", "protected"}
     /\ \E i \in DOMAIN last.stages : last.stages[i] = "checkSubscription"
     /\ \E i \in DOMAIN last.stages : last.stages[i] = "rateLimit"
     /\ last.handler # "none"
     /\ last.status # 429) =>
        /\ last.logged
        /\ apiLogs # <<>>
        /\ apiLogs[Len(apiLogs)] =
              ApiLogRow(last.user, last.path, last.method, last.status)

(***************************************************************************)
(* C19: every request to a gated endpoint that carries the valid token of  *)
(* a user has a row with its outcome written to api_logs, whether it is    *)
(* admitted, refused by rateLimit (429) or refused by checkSubscription    *)
(* (403).                                                                  *)
(***************************************************************************)
C19_OutcomeAudited ==
    (/\ last.op \in {"request", "protected"}
     /\ last.path \in GatedPaths
     /\ last.method = GatedMethod(last.path)
     /\ last.header = "valid") =>
        /\ last.logged
        /\ apiLogs # <<>>
        /\ apiLogs[Len(apiLogs)].statusCode = last.status

(***************************************************************************)
(* SpecRestart: SpecDated with the server process stopped and started      *)
(* again.  storage.ts builds its SQLiteStorage when the module is loaded,  *)
(* and the constructor drops api_logs, transactions, subscriptions and     *)
(* users from the database file before it creates them and the two seed    *)
(* users again; the rate windows are a Map of the process.                 *)
(***************************************************************************)
Restart ==
    /\ users' = SeedUsers
    /\ subscriptions' = <<>>
    /\ transactions' = <<>>
    /\ apiLogs' = <<>>
    /\ requestCounts' = [u \in UserIds |-> NoWindow]
    /\ last' = [NoCall EXCEPT !.op = "restart",
                              !.changed = (subscriptions # <<>>)]
    /\ UNCHANGED <<now, procs, arrivals, admits, tokens>>

NextRestart ==
    \/ NextDated
    \/ Restart

SpecRestart == InitLedger /\ [][NextRestart]_vars

(***************************************************************************)
(* C20: no step removes a row of subscriptions or changes its id or its    *)
(* user, no step makes an inactive row active again, and a row that a step *)
(* adds carries an id no row had before the step.                          *)
(***************************************************************************)
C20_RowsKeptNeverReactivated ==
    [][/\ Len(subscriptions') >= Len(subscriptions)
       /\ \A i \in DOMAIN subscriptions :
             /\ i \in DOMAIN subscriptions'
             /\ subscriptions'[i].id = subscriptions[i].id
             /\ subscriptions'[i].userId = subscriptions[i].userId
             /\ ~subscriptions[i].active => ~subscriptions'[i].active
       /\ \A j \in DOMAIN subscriptions' \ DOMAIN subscriptions :
             \A i \in DOMAIN subscriptions :
                 subscriptions'[j].id # subscriptions[i].id]_vars

(***************************************************************************)
(* C21: the handlers of the admin surface run only for a request whose     *)
(* token is that of an admin; GET /api/admin/users is answered 403 for the *)
(* valid token of a user who is not an admin and 401 for a request without *)
(* a valid token, and no table is changed.                                 *)
(***************************************************************************)
C21_AdminSurface ==
    (/\ last.op = "request"
     /\ last.path = AdminUsersPath
     /\ last.method = "GET") =>
        /\ last.handler # "none" =>
              last.header = "valid" /\ users[last.user] = "admin"
        /\ last.header # "valid" => last.status = 401
        /\ (last.header = "valid" /\ users[last.user] # "admin") =>
              last.status = 403
        /\ ~last.changed

(***************************************************************************)
(* C22: a payment-status poll without force_create by a caller who is not  *)
(* the payment record's metadata.userId is answered 403 and cancels and    *)
(* creates no subscription; a poll is answered 403 in that case only, so   *)
(* with force_create the ownership check is skipped.                       *)
(***************************************************************************)
C22_PollOwnership ==
    last.op = "poll" =>
        /\ last.detail = "notOwner" =>
              /\ last.status = 403
              /\ last.body = "NotAuthorizedForPaymentIntent"
              /\ last.cancelled = Undefined
              /\ last.created = Undefined
              /\ ~last.changed
        /\ last.status = 403 => last.detail = "notOwner"

\* A caller with an active subscription polled a payment of another user.
C22_Witness ==
    /\ last.op = "poll"
    /\ last.detail = "notOwner"
    /\ last.status = 403
    /\ ActiveIds(subscriptions, last.user) # {}

(***************************************************************************)
(* C23: the bypass parameter lets a user who is not an admin and has no    *)
(* active subscription through checkSubscription once: no such user is     *)
(* let through by it a second time, and it never lets through a request    *)
(* to a path under /api.                                                   *)
(***************************************************************************)
C23_BypassOneShot ==
    /\ \A i, j \in DOMAIN admits :
          (/\ i < j
           /\ ActiveIds(subscriptions, admits[i]) = {}) => admits[i] # admits[j]
    /\ admits # <<>> => ~MountedAt(procs[1].path, ApiMount)

(***************************************************************************)
(* C24: a request to a path that is not open, without an Authorization     *)
(* header, with a malformed one or with a token that fails verification,   *)
(* is answered 401 when its path is under /api and redirected to /auth     *)
(* otherwise; the subscriptions table is not queried and neither rateLimit *)
(* nor a handler runs.                                                     *)
(***************************************************************************)
C24_AuthRequired ==
    (/\ last.op = "request"
     /\ last.header # "valid"
     /\ ~IsOpenPath(last.path)) =>
        /\ IsApiPath(last.path) => last.status = 401
        /\ ~IsApiPath(last.path) => last.status = 302 /\ last.location = "/auth"
        /\ ~last.lookup
        /\ last.handler = "none"
        /\ \A i \in DOMAIN last.stages : last.stages[i] # "rateLimit"

(***************************************************************************)
(* C25: checkSubscription, for a request of a user who is not an admin to  *)
(* a path that matches no open path (and without the bypass parameter),    *)
(* queries the subscriptions table; when the user has no active            *)
(* subscription it does not call next() and answers 403                    *)
(* SubscriptionRequired for a path under /api and a redirect to /pricing   *)
(* otherwise.                                                              *)
(***************************************************************************)
C25_DefaultDeny ==
    (/\ last.op = "checkSubscription"
     /\ last.user # Missing
     /\ users[last.user] # "admin"
     /\ ~last.bypassParam
     /\ ~IsOpenPath(last.path)) =>
        /\ last.lookup
        /\ ActiveIds(subscriptions, last.user) = {} =>
              /\ last.status # 0
              /\ last.location = "/pricing"
              /\ IsApiPath(last.path) =>
                    last.status = 403 /\ last.body = "SubscriptionRequired"
              /\ ~IsApiPath(last.path) => last.status = 302

(***************************************************************************)
(* C26: a cancel during which no storage call fails: the admin's cancel of *)
(* an id that is in the table, active or not, and the user's cancel when   *)
(* the user has an active row, are answered 200 and set that row to        *)
(* active = false, endDate = now, changing nothing else; the admin's       *)
(* cancel of an id that is not in the table and the cancel of a user       *)
(* without an active row are answered 404 and change no row.               *)
(***************************************************************************)
C26_CancelOutcome ==
    [][(/\ last'.op = "cancel"
        /\ ~last'.threw
        /\ last'.status # 400
        /\ last' # last \/ subscriptions' # subscriptions) =>
          LET found == IF last'.detail = "admin"
                       THEN last'.first \in DOMAIN subscriptions
                       ELSE ActiveIds(subscriptions, last'.user) # {}
              id == last'.cancelled
          IN  IF found
              THEN /\ last'.status = 200
                   /\ last'.body = "SubscriptionCanceled"
                   /\ id \in DOMAIN subscriptions
                   /\ last'.detail = "admin" => id = last'.first
                   /\ last'.detail = "user" =>
                         id \in ActiveIds(subscriptions, last'.user)
                   /\ subscriptions' =
                         [i \in DOMAIN subscriptions |->
                             IF i = id
                             THEN [id |-> subscriptions[i].id,
                                   userId |-> subscriptions[i].userId,
                                   plan |-> subscriptions[i].plan,
                                   active |-> FALSE,
                                   startDate |-> subscriptions[i].startDate,
                                   endDate |-> now]
                             ELSE subscriptions[i]]
              ELSE /\ last'.status = 404
                   /\ last'.cancelled = Undefined
                   /\ subscriptions' = subscriptions]_vars

\* The admin cancelled a row that was cancelled earlier on the clock: it is
\* answered 200 and the row is still inactive.
C26_Witness ==
    /\ last.op = "cancel"
    /\ last.detail = "admin"
    /\ last.status = 200
    /\ last.changed
    /\ ~subscriptions[last.cancelled].active
    /\ subscriptions[last.cancelled].endDate = now
    /\ \E j \in DOMAIN subscriptions :
          /\ j > last.cancelled
          /\ subscriptions[j].userId = subscriptions[last.cancelled].userId
          /\ subscriptions[j].active
          /\ subscriptions[j].startDate < now

(***************************************************************************)
(* C27: when the insert of the audit row fails, the catch of logResponse   *)
(* discards the failure: the request gets the response that was produced   *)
(* for it, never an error response caused by the logging, and no row is    *)
(* written.                                                                *)
(***************************************************************************)
C27_LogFailureDiscarded ==
    /\ last.op \in {"request", "protected"} =>
          /\ last.status # 500
          /\ last.body # "InternalError"
    /\ (last.op \in {"request", "protected"} /\ last.discarded) =>
          /\ \E final \in FinalResponses :
                last.status = final.status /\ last.body = final.body
          /\ ~last.logged

\* The audit store failed for a request that was on its way to be logged.
C27_Witness ==
    /\ last.op = "request"
    /\ last.discarded
    /\ last.header = "valid"
    /\ HasStartTime(last.stages)
    /\ last.status = 200
    /\ apiLogs = <<>>

(***************************************************************************)
(* The responses whose body carries error.message of the error caught:     *)
(* the 500 of GET /check-payment-status ({message, error: error.message})  *)
(* and the 400 of the webhook (`Webhook Error: ${error.message}`).  The    *)
(* 500 of the subscription handlers is {message: 'Server error'}.          *)
(***************************************************************************)
CarriesCause(body) == body \in {"ErrorCheckingPaymentStatus", "WebhookError"}

(***************************************************************************)
(* C28: the error response of a handler in which a storage call or a call  *)
(* of the payment provider failed carries an error kind and a generic      *)
(* message only, not the message of the error that was caught.             *)
(***************************************************************************)
C28_CauseNotExposed ==
    (/\ last.op \in {"poll", "subscribe", "cancel"}
     /\ last.threw
     /\ last.status >= 500) => ~CarriesCause(last.body)

(***************************************************************************)
(* C29: a request of a user at time now takes the user's window w to: no   *)
(* window -> {count 1, resetTime now + 60 s}, admitted; now > w.resetTime  *)
(* -> {count 1, resetTime now + 60 s}, admitted; otherwise w.count < 10 -> *)
(* count + 1 with resetTime unchanged, admitted; otherwise rejected with   *)
(* the window unchanged.  The windows of the other users are not touched.  *)
(* At now = w.resetTime the window is not reset.                           *)
(***************************************************************************)
C29_RateTransition ==
    [][now' = now =>
          LET u == last'.user
              w == requestCounts[u]
              fresh == [count |-> 1, resetTime |-> now + 60 * 1000]
              reset == w = NoWindow \/ now > w.resetTime
              window == IF reset THEN fresh
                        ELSE IF w.count < 10
                        THEN [count |-> w.count + 1, resetTime |-> w.resetTime]
                        ELSE w
          IN  /\ last'.op = "rateLimit"
              /\ requestCounts' = [requestCounts EXCEPT ![u] = window]
              /\ (last'.detail = "admitted") = (reset \/ w.count < 10)
              /\ (last'.detail = "rejected") = (~reset /\ w.count >= 10)
              /\ last'.detail = "rejected" => last'.status = 429]_vars

\* A request made at the very millisecond of resetTime was counted in the
\* window, which was not reset.
C29_Witness ==
    /\ last.op = "rateLimit"
    /\ requestCounts[last.user] # NoWindow
    /\ requestCounts[last.user].resetTime = now
    /\ \/ last.detail = "admitted" /\ requestCounts[last.user].count > 1
       \/ last.detail = "rejected" /\ requestCounts[last.user].count = 10

(***************************************************************************)
(* C30: when a request of a user is rejected at time t with                *)
(* resetInSeconds = h, the user's request made h seconds after t is        *)
(* admitted.                                                               *)
(***************************************************************************)
C30_RetryHintSufficient ==
    [][(/\ last.op = "rateLimit"
        /\ last.detail = "rejected"
        /\ last'.op = "rateLimit"
        /\ last'.user = last.user
        /\ last'.time = last.time + last.resetInSeconds * 1000
        /\ last'.time > last.time) => last'.detail = "admitted"]_vars

(***************************************************************************)
(* C31: checkSubscription, for a req.path that starts with an entry of     *)
(* openPaths (the entry itself, a path under it, or a longer path such as  *)
(* /api/user-export), calls next() without a query of the subscriptions    *)
(* table, whether req.user is set or not and whatever the user's role.     *)
(***************************************************************************)
C31_ExemptByPrefix ==
    (/\ last.op = "checkSubscription"
     /\ \E entry \in openPaths :
           /\ Len(entry) <= Len(last.path)
           /\ \A i \in 1..Len(entry) : last.path[i] = entry[i]) =>
        /\ last.status = 0
        /\ last.body = "none"
        /\ last.location = "none"
        /\ ~last.lookup

\* A request without req.user to /api/user-export was let through.
C31_Witness ==
    /\ last.op = "checkSubscription"
    /\ last.path = UserExportPath
    /\ last.user = Missing
    /\ last.status = 0

(***************************************************************************)
(* SpecSubscribeRace: two POST /subscriptions/subscribe calls in flight at *)
(* once, each split at its awaits (routes.ts 230 and 237):                 *)
(*   get     await storage.getActiveSubscriptionByUserId(req.user.id)      *)
(*   create  await storage.createSubscription({...})                       *)
(* pc is "rejected" after 400 'User already has an active subscription'    *)
(* and "done" after 201.                                                   *)
(***************************************************************************)
SubscribeStart(p) ==
    /\ procs[p].pc = "idle"
    /\ \E u \in UserIds, plan \in Plans :
          procs' = [procs EXCEPT ![p] =
                       [IdleProc EXCEPT !.pc = "get", !.kind = "subscribe",
                                        !.user = u, !.plan = plan]]
    /\ UNCHANGED <<subscriptions>>
    /\ UNCHANGED raceIdle

SubscribeGet(p) ==
    /\ procs[p].pc = "get"
    /\ \E existing \in getActiveSubscriptionByUserId(subscriptions, procs[p].user) :
          procs' = [procs EXCEPT ![p].existing = existing,
                                 ![p].pc = IF AlreadySubscribed(existing)
                                           THEN "rejected" ELSE "create"]
    /\ UNCHANGED <<subscriptions>>
    /\ UNCHANGED raceIdle

SubscribeCreate(p) ==
    /\ procs[p].kind = "subscribe"
    /\ RaceCreate(p)

NextSubscribeRace ==
    \E p \in Procs :
        \/ SubscribeStart(p)
        \/ SubscribeGet(p)
        \/ SubscribeCreate(p)

SpecSubscribeRace == InitRace /\ [][NextSubscribeRace]_vars

\* C32: subscribe never leaves a user with a second active row, also when
\* two subscribe calls for the same user interleave: at most one of them
\* creates a row.
C32_SubscribeOneActive ==
    /\ \A u \in UserIds : ActiveCount(subscriptions, u) <= 1
    /\ ~(/\ procs[1].user = procs[2].user
         /\ procs[1].pc = "done" /\ procs[2].pc = "done")

(***************************************************************************)
(* C33: a request answered 401 by authenticate, 302 or 403                 *)
(* SubscriptionRequired by checkSubscription, or 429 by rateLimit leaves   *)
(* requestCounts as it was; requestCounts changes only in a request that   *)
(* carried a valid token and went through checkSubscription, authenticate  *)
(* and logRequest to rateLimit, and was let through by rateLimit.          *)
(***************************************************************************)
C33_RejectedConsumesNoQuota ==
    [][/\ (\/ last'.status \in {401, 302, 429}
           \/ last'.status = 403 /\ last'.body = "SubscriptionRequired") =>
              requestCounts' = requestCounts
       /\ requestCounts' # requestCounts =>
              /\ last'.header = "valid"
              /\ Len(last'.stages) >= 4
              /\ SubSeq(last'.stages, 1, 4) =
                     <<"checkSubscription", "authenticate", "logRequest", "rateLimit">>
              /\ last'.status # 429]_vars

\* A request with a valid token behind checkSubscription was answered 429
\* with the caller's window full.
C33_Witness ==
    /\ last.op = "protected"
    /\ last.status = 429
    /\ last.header = "valid"
    /\ requestCounts[last.user].count = RateLimitMax

(***************************************************************************)
(* C34: every entry of requestCounts has 1 <= count <= 10; over any        *)
(* sequence of requests and clock ticks the resetTime of a user's entry    *)
(* never decreases and an entry, once set, is never removed.               *)
(***************************************************************************)
C34_WindowInvariants ==
    /\ [](\A u \in UserIds :
             HasWindow(requestCounts, u) =>
                 /\ requestCounts[u].count >= 1
                 /\ requestCounts[u].count <= RateLimitMax)
    /\ [][\A u \in UserIds :
             HasWindow(requestCounts, u) =>
                 /\ HasWindow(requestCounts', u)
                 /\ requestCounts'[u].resetTime >= requestCounts[u].resetTime]_vars

\* A user's window, reset at least once, is full and the user was rejected.
C34_Witness ==
    /\ last.op = "rateLimit"
    /\ last.status = 429
    /\ requestCounts[last.user].count = RateLimitMax
    /\ requestCounts[last.user].resetTime > oneMinute

(***************************************************************************)
(* SpecRateFair: SpecRate with a clock that keeps advancing and users that *)
(* keep sending requests: a minute tick that is possible is eventually     *)
(* taken, and so is a request of a user that would change the state.  The  *)
(* clock of the model stops at MaxMinutes minutes.                         *)
(***************************************************************************)
SpecRateFair ==
    /\ SpecRate
    /\ WF_vars(TickMinute)
    /\ \A userId \in UserIds : WF_vars(RateRequest(userId, FALSE))

\* The clock can still pass the resetTime of the user's window.
CanPassReset(userId) ==
    /\ HasWindow(requestCounts, userId)
    /\ requestCounts[userId].resetTime < MaxMinutes * oneMinute

(***************************************************************************)
(* C35: while the clock keeps advancing, a user whose request was rejected *)
(* with 429 is eventually admitted again, however many requests it sent    *)
(* while rejected, and a request of a user at a time strictly after the    *)
(* resetTime of its window is admitted.                                    *)
(***************************************************************************)
C35_RejectedEventuallyAdmitted ==
    /\ \A u \in UserIds :
          (/\ last.op = "rateLimit" /\ last.user = u
           /\ last.detail = "rejected"
           /\ CanPassReset(u))
              ~> (last.op = "rateLimit" /\ last.user = u /\ last.detail = "admitted")
    /\ [][\A u \in UserIds :
             (/\ RolledOver(u, now)
              /\ now' = now
              /\ last'.user = u
              /\ last' # last \/ requestCounts' # requestCounts) =>
                 /\ last'.detail = "admitted"
                 /\ requestCounts'[u].count = 1]_vars

\* A user is rejected at the very resetTime of its window, after more
\* requests than the window admits, and the clock can still advance.
C35_Witness ==
    /\ last.op = "rateLimit"
    /\ last.detail = "rejected"
    /\ now = requestCounts[last.user].resetTime
    /\ arrivals[last.user] > RateLimitMax + 1
    /\ CanPassReset(last.user)

(***************************************************************************)
(* C36: in every state of the subscriptions table a row has active = true  *)
(* exactly when its end_date is NULL: createSubscription inserts active    *)
(* rows without end_date and cancelSubscription sets active = 0 together   *)
(* with end_date.                                                          *)
(***************************************************************************)
C36_ActiveIffNoEndDate ==
    \A i \in SubIds(subscriptions) :
        subscriptions[i].active <=> (subscriptions[i].endDate = Null)

\* A webhook has cancelled one row and created another.
C36_Witness ==
    /\ last.op = "webhook"
    /\ last.cancelled \in SubIds(subscriptions)
    /\ last.created \in SubIds(subscriptions)
    /\ ~subscriptions[last.cancelled].active
    /\ subscriptions[last.cancelled].endDate # Null
    /\ subscriptions[last.created].active
    /\ subscriptions[last.created].endDate = Null

(***************************************************************************)
(* SpecReconcile: reconciliation calls (webhook deliveries and             *)
(* payment-status polls), one at a time, on a table as earlier calls can   *)
(* leave it: empty, with one active row, or with two active rows of one    *)
(* user, the outcome of two interleaved reconciliations (SpecRace).  The   *)
(* storage calls succeed; their failures are in SpecLedger.                *)
(***************************************************************************)
MaxReconciled == 3

ReconcileStartTables ==
    RaceStartTables \cup
    {createSubscription(createSubscription(<<>>, u, p, 0), u, q, 0) :
        u \in UserIds, p \in Plans, q \in Plans}

InitReconcile ==
    /\ users = SeedUsers
    /\ subscriptions \in ReconcileStartTables
    /\ transactions = <<>>
    /\ requestCounts = [u \in UserIds |-> NoWindow]
    /\ now = 0
    /\ last = NoCall
    /\ procs = <<>>
    /\ arrivals = <<>>
    /\ admits = <<>>
    /\ tokens = {}
    /\ apiLogs = <<>>

\* Of a poll the record also keeps the payment record retrieved and the
\* force_create parameter (request).
Reconciles(op, detail, user, r, request) ==
    /\ Len(r.subs) <= MaxReconciled
    /\ subscriptions' = r.subs
    /\ last' = Call(op, detail, user, r, r.subs # subscriptions, Undefined)
                  @@ [request |-> request]
    /\ UNCHANGED <<users, transactions, requestCounts, now, procs, arrivals, admits,
                   apiLogs, tokens>>

ReconcileWebhook ==
    \E event \in WebhookEvents :
        \E existing \in getActiveSubscriptionByUserId(subscriptions, event.userId) :
            Reconciles("webhook", EventClass(event), event.userId,
                       WebhookHandler(subscriptions, event, existing, NoFault, now),
                       Undefined)

ReconcilePoll ==
    \E caller \in UserIds, hasIntent \in BOOLEAN, force \in BOOLEAN,
       payment \in PaymentRecords :
        \E existing \in getActiveSubscriptionByUserId(subscriptions, caller) :
            Reconciles("poll", PollClass(hasIntent, force, payment, caller), caller,
                       CheckPaymentStatusHandler(subscriptions, caller, hasIntent,
                                                 force, payment, existing, NoFault,
                                                 now),
                       [payment |-> payment, force |-> force])

NextReconcile ==
    \/ ReconcileWebhook
    \/ ReconcilePoll

SpecReconcile == InitReconcile /\ [][NextReconcile]_vars

\* The rows that are active before the step and not after it.
CancelledInStep ==
    {i \in SubIds(subscriptions) : subscriptions[i].active /\ ~subscriptions'[i].active}

(***************************************************************************)
(* C37: a reconciliation (webhook or poll) whose storage calls succeed     *)
(* cancels one active row of the user if the user has any and no row       *)
(* otherwise, and creates exactly one row: the user's number of active     *)
(* rows becomes one if it was zero and stays what it was otherwise, so     *)
(* two or more active rows of a user remain that many.                     *)
(***************************************************************************)
C37_ReconcileCancelsOneCreatesOne ==
    [][(/\ last'.op \in {"webhook", "poll"}
        /\ last'.detail \in {"full", "force", "succeeded"}
        /\ ~last'.threw) =>
           LET u == last'.user
               before == ActiveCount(subscriptions, u)
           IN  /\ Len(subscriptions') = Len(subscriptions) + 1
               /\ subscriptions'[Len(subscriptions')].userId = u
               /\ subscriptions'[Len(subscriptions')].active
               /\ Cardinality(CancelledInStep) = (IF before = 0 THEN 0 ELSE 1)
               /\ \A i \in CancelledInStep : subscriptions[i].userId = u
               /\ ActiveCount(subscriptions', u) = (IF before = 0 THEN 1 ELSE before)
               /\ \A v \in UserIds \ {u} :
                     ActiveCount(subscriptions', v) = ActiveCount(subscriptions, v)]_vars

\* A user with two active rows still has two after one more reconciliation,
\* which cancelled one of them.
C37_Witness ==
    /\ last.op \in {"webhook", "poll"}
    /\ ~last.threw
    /\ last.cancelled # Undefined
    /\ last.created = MaxReconciled
    /\ ActiveCount(subscriptions, last.user) = 2

(***************************************************************************)
(* C38: POST /webhook reads nothing of its caller: a                       *)
(* payment_intent.succeeded event whose metadata has userId = u and a      *)
(* planId cancels the active row of u the lookup returns, if u has one,    *)
(* and creates an active row for u with that plan (when the storage calls  *)
(* succeed); an event without userId or planId leaves the table as it is.  *)
(***************************************************************************)
C38_WebhookUnauthenticated ==
    [][last'.op = "webhook" =>
          /\ (last'.detail = "full" /\ ~last'.threw) =>
                LET u == last'.user
                    new == Len(subscriptions) + 1
                IN  /\ last'.status = 200
                    /\ IF ActiveIds(subscriptions, u) = {}
                       THEN last'.cancelled = Undefined
                       ELSE /\ last'.cancelled \in ActiveIds(subscriptions, u)
                            /\ ~subscriptions'[last'.cancelled].active
                    /\ last'.created = new
                    /\ Len(subscriptions') = new
                    /\ subscriptions'[new].userId = u
                    /\ subscriptions'[new].plan \in Plans
                    /\ subscriptions'[new].active
          /\ last'.detail = "noMetadata" =>
                /\ subscriptions' = subscriptions
                /\ last'.cancelled = Undefined
                /\ last'.created = Undefined]_vars

\* A webhook delivery replaced the user's active row by one with another
\* plan.
C38_Witness ==
    /\ last.op = "webhook"
    /\ last.detail = "full"
    /\ last.cancelled \in SubIds(subscriptions)
    /\ last.created \in SubIds(subscriptions)
    /\ subscriptions[last.cancelled].userId = last.user
    /\ subscriptions[last.created].userId = last.user
    /\ subscriptions[last.created].plan # subscriptions[last.cancelled].plan

(***************************************************************************)
(* C39: GET /check-payment-status with force_create=true, by any           *)
(* authenticated caller and for a payment record of any owner and any      *)
(* status, cancels the caller's active row the lookup returns, if any, and *)
(* creates an active row for the caller with the record's planId (when     *)
(* the storage calls succeed); without force_create the table changes only *)
(* if the record's status is succeeded and its owner is the caller.        *)
(***************************************************************************)
C39_ForceCreateBypass ==
    [][last'.op = "poll" =>
          LET u == last'.user
              payment == last'.request.payment
              force == last'.request.force
              new == Len(subscriptions) + 1
          IN  /\ (force /\ last'.detail = "force" /\ ~last'.threw) =>
                    /\ last'.status = 200
                    /\ IF ActiveIds(subscriptions, u) = {}
                       THEN last'.cancelled = Undefined
                       ELSE /\ last'.cancelled \in ActiveIds(subscriptions, u)
                            /\ ~subscriptions'[last'.cancelled].active
                    /\ Len(subscriptions') = new
                    /\ subscriptions'[new].userId = u
                    /\ subscriptions'[new].plan = payment.planId
                    /\ subscriptions'[new].active
              /\ (~force /\ subscriptions' # subscriptions) =>
                    /\ payment.found
                    /\ payment.pstatus = "succeeded"
                    /\ payment.owner = u]_vars

\* A forced poll on another user's record that has not succeeded replaced
\* the caller's active row.
C39_Witness ==
    /\ last.op = "poll"
    /\ last.request.force
    /\ last.request.payment.found
    /\ last.request.payment.owner # last.user
    /\ last.request.payment.pstatus # "succeeded"
    /\ last.cancelled \in SubIds(subscriptions)
    /\ last.created \in SubIds(subscriptions)
    /\ subscriptions[last.created].userId = last.user
    /\ subscriptions[last.created].plan = last.request.payment.planId

(***************************************************************************)
(* auth.ts: register, and SpecRegister: POST /auth/register called one at  *)
(* a time, and the process restarted.  In this specification users is the  *)
(* users table with its username, email and role columns; ids are the      *)
(* positions.  A username or email is a name; the seeded rows have their   *)
(* SeedUsers name as both.                                                 *)
(***************************************************************************)
MaxUsers == 4

\* initializeDatabase: the two rows inserted when the table is empty.
SeedRows == [id \in UserIds |-> UserRow(SeedUsers, id)]

RegisterNames == {"developer", "carol", "dave"}

\* A request body: role is a field the client may add (NoRole: none).
NoRole == ""

RegisterBodies ==
    [username : RegisterNames, email : RegisterNames, role : Roles \cup {NoRole}]

getUserByEmail(us, email) == {id \in DOMAIN us : us[id].email = email}

getUserByUsername(us, username) == {id \in DOMAIN us : us[id].username = username}

\* createUser: INSERT ... VALUES (username, email, name, password,
\* insertUser.role || 'developer')
createUser(us, insertUser) ==
    Append(us, [id |-> Len(us) + 1, username |-> insertUser.username,
                email |-> insertUser.email,
                role |-> IF insertUser.role = NoRole THEN "developer"
                         ELSE insertUser.role])

\* The role register passes to createUser: role: 'developer'
RegisterRoleFromBody(body) == body.role

RegisterRole(body) == "developer"

\* register(req, res) at Date.now() = t; fault: a storage call or
\* hashPassword throws.  created: the id of the row inserted.
register(us, body, fault, t) ==
    IF fault
    THEN [users |-> us, status |-> 500, body |-> "ServerError",
          created |-> Undefined, token |-> Missing]
    ELSE IF getUserByEmail(us, body.email) # {}
    THEN [users |-> us, status |-> 400, body |-> "EmailInUse",
          created |-> Undefined, token |-> Missing]
    ELSE IF getUserByUsername(us, body.username) # {}
    THEN [users |-> us, status |-> 400, body |-> "UsernameExists",
          created |-> Undefined, token |-> Missing]
    ELSE LET after == createUser(us, [username |-> body.username,
                                      email |-> body.email,
                                      role |-> RegisterRole(body)])
         IN  [users |-> after, status |-> 201, body |-> "UserRegistered",
              created |-> Len(after),
              token |-> generateToken(after[Len(after)], t)]

InitRegister ==
    /\ users = SeedRows
    /\ subscriptions = <<>>
    /\ transactions = <<>>
    /\ requestCounts = [u \in UserIds |-> NoWindow]
    /\ now = 0
    /\ last = NoCall
    /\ procs = <<>>
    /\ arrivals = <<>>
    /\ admits = <<>>
    /\ tokens = {}
    /\ apiLogs = <<>>

registerIdle == <<subscriptions, transactions, requestCounts, now, procs, arrivals,
                  admits, apiLogs, tokens>>

Register ==
    \E body \in RegisterBodies, fault \in BOOLEAN :
        \E r \in {register(users, body, fault, now)} :
            /\ Len(r.users) <= MaxUsers
            /\ users' = r.users
            /\ last' = [op |-> "register", request |-> body, status |-> r.status,
                        body |-> r.body, created |-> r.created, token |-> r.token]
            /\ UNCHANGED registerIdle

\* new SQLiteStorage(): the tables are dropped and the users table seeded.
RegisterRestart ==
    /\ users' = SeedRows
    /\ last' = [op |-> "restart", request |-> Missing, status |-> 0,
                body |-> "none", created |-> Undefined, token |-> Missing]
    /\ UNCHANGED registerIdle

NextRegister ==
    \/ Register
    \/ RegisterRestart

SpecRegister == InitRegister /\ [][NextRegister]_vars

Admins(us) == {id \in DOMAIN us : us[id].role = "admin"}

(***************************************************************************)
(* C40: every row register inserts has role developer, whatever the        *)
(* request body holds, and no step changes the role of a row that stays:   *)
(* in every state the rows with role admin are the seeded ones.            *)
(***************************************************************************)
C40_AdminsAreSeeded ==
    /\ [](/\ Admins(users) = Admins(SeedRows)
          /\ \A id \in DOMAIN users \ UserIds : users[id].role = "developer"
          /\ last.op = "register" /\ last.status = 201 =>
                /\ users[last.created].role = "developer"
                /\ last.token.role = "developer")
    /\ [][\A id \in DOMAIN users \cap DOMAIN users' :
             users'[id].role = users[id].role]_vars

\* A registration whose body asked for role admin was answered 201.
C40_Witness ==
    /\ last.op = "register"
    /\ last.status = 201
    /\ last.request.role = "admin"
    /\ last.created \in DOMAIN users \ UserIds
    /\ users[last.created].username = last.request.username

====
